---- MODULE Spec2Model ----
(***************************************************************************)
(* Document intelligence pipeline of the eligibility-report backend        *)
(* (backend/app/services/document_intelligence.py) and the upload handler  *)
(* that calls it (backend/app/api/v1/reports.py).                          *)
(*                                                                         *)
(* Representation.                                                         *)
(*  - Text is a sequence of lines (what str.splitlines yields); a line is  *)
(*    a sequence of tokens separated by single blanks.  A token is one of  *)
(*      W(s)      a run of letters, blanks and punctuation, as written     *)
(*      Mon(m)    a three-letter month name, m in 1..12                    *)
(*      Num(v)    a digit run [0-9][0-9,]* with value v                    *)
(*      Dec(v, f) a number with three decimals, v.f                        *)
(*      Cur       a currency prefix (Rs. / INR)                            *)
(*      Sep       a table delimiter, one of | , ; TAB                      *)
(*      Date(..)  a numeric date a/b/c, each part with its digit count     *)
(*    The regular expressions of the source are translated to matchers     *)
(*    over tokens.                                                         *)
(*  - Amounts read from the text are counted in thousandths of a rupee;   *)
(*    rounded money, confidences and percentages are counted in            *)
(*    hundredths, so round(x, 2) is a rounding to an integer.              *)
(*  - A month key "YYYY-MM" is the record [y, m]; keys are ordered as the  *)
(*    zero-padded strings are (year first, then month).                    *)
(*  - The bytes of a document are represented by what the collaborators    *)
(*    (pypdf, pypdfium2, PIL, pytesseract) make of them.                   *)
(***************************************************************************)
EXTENDS Integers, Sequences, FiniteSets, TLC

VARIABLES
    files,   \* the documents of the request being put together
    run,     \* the last invocation of the pipeline: its clock and what it returned
    prev,    \* the invocation before it on the same documents, or Null
    store,   \* the reports table of the report store, in insertion order
    status,  \* HTTP status of the last upload, 0 before any
    cfg,     \* the configuration tables in the data directory
    call     \* the last call of a function on its own: arguments and result

vars == <<files, run, prev, store, status, cfg, call>>

Null == [none |-> TRUE]

(***************************************************************************)
(* Program constants                                                       *)
(***************************************************************************)
PDF_TEXT_THRESHOLD == 40

\* 0.55, in hundredths
OCR_MIN_CONFIDENCE == 55

SALARY_TABLE_LABELS == {"salary slip", "salary summary", "salary statement"}

ALLOWED_EXTENSIONS == {".pdf", ".png", ".jpg", ".jpeg", ".tiff", ".tif"}

\* 10 * 1024 * 1024
MAX_FILE_SIZE == 10485760

(***************************************************************************)
(* Bounds of the model                                                     *)
(***************************************************************************)
MaxDocs == 2
MaxLines == 3
MaxBulk == 13
MaxReports == 2

(***************************************************************************)
(* Arithmetic                                                              *)
(***************************************************************************)
Min(a, b) == IF a <= b THEN a ELSE b
Max(a, b) == IF a >= b THEN a ELSE b

\* round(a / b) for a >= 0, b > 0: to the nearest integer, a tie to the even one
RoundDiv(a, b) ==
    LET q == a \div b
        r == a % b
    IN  IF 2 * r < b THEN q
        ELSE IF 2 * r > b THEN q + 1
        ELSE IF q % 2 = 0 THEN q ELSE q + 1

RECURSIVE ScaledDiv(_, _, _)
\* quotient and remainder of a * 10^k by b, a digit at a time to stay within
\* 32 bits
ScaledDiv(a, b, k) ==
    IF k = 0 THEN [q |-> a \div b, r |-> a % b]
    ELSE LET x == ScaledDiv(a, b, k - 1)
         IN  [q |-> 10 * x.q + (10 * x.r) \div b, r |-> (10 * x.r) % b]

\* round((a / b) * 100, 2) in hundredths: round(a * 10000 / b)
RoundPercent(a, b) ==
    LET x == ScaledDiv(a, b, 4)
    IN  IF 2 * x.r < b THEN x.q
        ELSE IF 2 * x.r > b THEN x.q + 1
        ELSE IF x.q % 2 = 0 THEN x.q ELSE x.q + 1

RECURSIVE SumSeq(_)
SumSeq(s) == IF s = <<>> THEN 0 ELSE Head(s) + SumSeq(Tail(s))

RECURSIVE NumDigits(_)
NumDigits(v) == IF v < 10 THEN 1 ELSE 1 + NumDigits(v \div 10)

RECURSIVE Flatten(_)
Flatten(ss) == IF ss = <<>> THEN <<>> ELSE Head(ss) \o Flatten(Tail(ss))

(***************************************************************************)
(* Tokens                                                                  *)
(***************************************************************************)
W(s) == [t |-> "w", s |-> s]
Mon(m) == [t |-> "mon", v |-> m]
\* a number, written with thousands separators from 1,000 on
Num(v) == [t |-> "num", v |-> v, g |-> v >= 1000]
\* a number written as plain digits, such as a year
Year(v) == [t |-> "num", v |-> v, g |-> FALSE]
\* a number written with three decimals, v.f
Dec(v, f) == [t |-> "dec", v |-> v, f |-> f]
Cur == [t |-> "cur", s |-> "INR"]
Sep == [t |-> "sep", s |-> "|"]
Date(a, al, b, bl, c, cl) ==
    [t |-> "date", a |-> a, al |-> al, b |-> b, bl |-> bl, c |-> c, cl |-> cl]
\* a PAN number, five letters, four digits and a letter
Pan(s) == [t |-> "pan", s |-> s]
\* an entry of the OCR engine's output whose text is blank
Blank == [t |-> "blank"]

\* the characters of a token
TokLen(tok) ==
    CASE tok.t = "w" -> Len(tok.s)
      [] tok.t = "mon" -> 3
      [] tok.t = "num" -> NumDigits(tok.v)
                          + (IF tok.g THEN (NumDigits(tok.v) - 1) \div 3 ELSE 0)
      [] tok.t = "dec" -> NumDigits(tok.v) + 4
      [] tok.t = "cur" -> Len(tok.s)
      [] tok.t = "sep" -> 1
      [] tok.t = "date" -> tok.al + tok.bl + tok.cl + 2
      [] tok.t = "pan" -> 10
      [] OTHER -> 0

RECURSIVE LineLen(_)
\* the characters of a line: its tokens and the blanks between them
LineLen(line) ==
    IF line = <<>> THEN 0
    ELSE IF Len(line) = 1 THEN TokLen(line[1])
    ELSE TokLen(Head(line)) + 1 + LineLen(Tail(line))

RECURSIVE TextLen(_)
\* len(text.strip()) of the lines joined by newlines
TextLen(lines) ==
    IF lines = <<>> THEN 0
    ELSE IF Len(lines) = 1 THEN LineLen(lines[1])
    ELSE LineLen(Head(lines)) + 1 + TextLen(Tail(lines))

\* text.strip() is non-empty
NonBlank(lines) == TextLen(lines) > 0

(***************************************************************************)
(* Text acquisition                                                        *)
(*                                                                         *)
(* A document is [filename |-> [stem, suffix], size, content], where       *)
(* content records what each collaborator makes of the bytes:              *)
(*   content.pdf    = [ok, lines]   pypdf: the embedded text, or a raise   *)
(*   content.raster = [ok, pages]   pypdfium2: the page images, or a raise *)
(*   content.img    = an image                                             *)
(* and an image is [ok, data]: PIL and pytesseract raise (ok = FALSE) or   *)
(* give the entries [text, conf] of image_to_data, conf in -1..100.        *)
(* The field "failures" of a result is a history of the collaborators that *)
(* raised while the text was acquired, and "exc" tells whether an          *)
(* exception leaves the function; the code returns (text, info) only.      *)
(***************************************************************************)
\* str.lower() on the suffixes that occur
Lower(s) ==
    CASE s = ".PDF" -> ".pdf"
      [] s = ".PNG" -> ".png"
      [] OTHER -> s

_read_pdf_text(content) ==
    IF content.pdf.ok THEN [text |-> content.pdf.lines, exc |-> FALSE]
    ELSE [text |-> <<>>, exc |-> FALSE]

RECURSIVE OcrWords(_)
\* words: the entries whose stripped text is non-empty
OcrWords(data) ==
    IF data = <<>> THEN <<>>
    ELSE IF Head(data).text.t # "blank"
         THEN <<Head(data).text>> \o OcrWords(Tail(data))
         ELSE OcrWords(Tail(data))

RECURSIVE OcrConfValues(_)
\* conf_values: the confidences that are >= 0 (each conf / 100.0, in hundredths)
OcrConfValues(data) ==
    IF data = <<>> THEN <<>>
    ELSE IF Head(data).conf >= 0
         THEN <<Head(data).conf>> \o OcrConfValues(Tail(data))
         ELSE OcrConfValues(Tail(data))

\* "caught" records that PIL or the OCR engine raised and the except clause
\* answered
_ocr_image_bytes(img) ==
    IF ~img.ok THEN [text |-> <<>>, conf |-> 0, caught |-> TRUE, exc |-> FALSE]
    ELSE LET words == OcrWords(img.data)
             conf_values == OcrConfValues(img.data)
         IN  IF words = <<>>
             THEN [text |-> <<>>, conf |-> 0, caught |-> FALSE, exc |-> FALSE]
             ELSE [text |-> <<words>>,
                   conf |-> IF conf_values = <<>> THEN 0
                            ELSE RoundDiv(SumSeq(conf_values), Len(conf_values)),
                   caught |-> FALSE, exc |-> FALSE]

RECURSIVE PageTexts(_)
PageTexts(results) ==
    IF results = <<>> THEN <<>>
    ELSE IF NonBlank(Head(results).text)
         THEN Head(results).text \o PageTexts(Tail(results))
         ELSE PageTexts(Tail(results))

RECURSIVE ConfOfRead(_)
ConfOfRead(results) ==
    IF results = <<>> THEN <<>>
    ELSE (IF Head(results).caught THEN <<>> ELSE <<Head(results).conf>>)
         \o ConfOfRead(Tail(results))

\* conf_scores.append(conf) only for the pages the OCR engine read
OcrPdfBytesSkipFailed(content) ==
    IF ~content.raster.ok
    THEN [text |-> <<>>, conf |-> 0, failures |-> {"rasterize"}, exc |-> FALSE]
    ELSE LET pages == content.raster.pages
             results == [i \in 1..Len(pages) |-> _ocr_image_bytes(pages[i])]
             conf_scores == ConfOfRead(results)
         IN  [text |-> PageTexts(results),
              conf |-> IF Len(conf_scores) = 0 THEN 0
                       ELSE RoundDiv(SumSeq(conf_scores), Len(conf_scores)),
              failures |-> IF \E i \in 1..Len(pages) : results[i].caught
                           THEN {"ocr"} ELSE {},
              exc |-> \E i \in 1..Len(pages) : results[i].exc]

_ocr_pdf_bytes(content) ==
    IF ~content.raster.ok
    THEN [text |-> <<>>, conf |-> 0, failures |-> {"rasterize"}, exc |-> FALSE]
    ELSE LET pages == content.raster.pages
             results == [i \in 1..Len(pages) |-> _ocr_image_bytes(pages[i])]
             conf_scores == [i \in 1..Len(pages) |-> results[i].conf]
         IN  [text |-> PageTexts(results),
              conf |-> IF Len(pages) = 0 THEN 0
                       ELSE RoundDiv(SumSeq(conf_scores), Len(conf_scores)),
              failures |-> IF \E i \in 1..Len(pages) : results[i].caught
                           THEN {"ocr"} ELSE {},
              exc |-> \E i \in 1..Len(pages) : results[i].exc]

\* the embedded text is accepted whatever its length
AcceptEmbeddedAlways(text) == TRUE

\* len(text.strip()) >= PDF_TEXT_THRESHOLD
AcceptEmbedded(text) == TextLen(text) >= PDF_TEXT_THRESHOLD

_read_text_from_document(doc) ==
    LET suffix == Lower(doc.filename.suffix)
    IN  IF suffix = ".pdf"
        THEN LET pdf == _read_pdf_text(doc.content)
                 pdfFail == IF doc.content.pdf.ok THEN {} ELSE {"pdf_parse"}
             IN  IF pdf.exc
                 THEN [text |-> <<>>, info |-> Null, failures |-> pdfFail, exc |-> TRUE]
                 ELSE IF AcceptEmbedded(pdf.text)
                 THEN [text |-> pdf.text,
                       info |-> [ocr_used |-> FALSE, ocr_confidence |-> 100],
                       failures |-> pdfFail, exc |-> FALSE]
                 ELSE LET o == _ocr_pdf_bytes(doc.content)
                      IN  [text |-> o.text,
                           info |-> [ocr_used |-> TRUE, ocr_confidence |-> o.conf],
                           failures |-> pdfFail \cup o.failures, exc |-> o.exc]
        ELSE IF suffix \in {".png", ".jpg", ".jpeg", ".tif", ".tiff"}
        THEN LET o == _ocr_image_bytes(doc.content.img)
             IN  [text |-> o.text,
                  info |-> [ocr_used |-> TRUE, ocr_confidence |-> o.conf],
                  failures |-> IF o.caught THEN {"ocr"} ELSE {}, exc |-> o.exc]
        ELSE [text |-> <<>>,
              info |-> [ocr_used |-> FALSE, ocr_confidence |-> 0],
              failures |-> {}, exc |-> FALSE]

(***************************************************************************)
(* The corpus as the regular expressions see it                            *)
(*                                                                         *)
(* Stream(lines) is the corpus as one token sequence (consecutive tokens   *)
(* are one whitespace character apart, a blank or a newline).              *)
(* Chars(stream) is its character sequence, each character reduced to the  *)
(* class the patterns distinguish:                                         *)
(*   0..9 the digit, COMMA, CUR0 the first and CUR1 a further character of *)
(*   a currency prefix, SPACE whitespace, DOT the decimal point of a       *)
(*   number, OTHER anything else.                                          *)
(* Amounts read from the text are in thousandths of a rupee; a number of   *)
(* the inputs carries no decimals or three.  Every round(x, 2) gives       *)
(* hundredths of a rupee.                                                  *)
(***************************************************************************)
COMMA == 10
OTHER_CH == 11
CUR0 == 12
CUR1 == 13
SPACE == 14
DOT == 15

Stream(lines) == Flatten(lines)

RECURSIVE DigitsOf(_, _)
\* the decimal digits of v, zero-padded to width n
DigitsOf(v, n) ==
    IF n <= 1 THEN <<v % 10>> ELSE DigitsOf(v \div 10, n - 1) \o <<v % 10>>

RECURSIVE Grouped(_)
\* digits with a comma before every group of three from the right
Grouped(ds) ==
    IF Len(ds) <= 3 THEN ds
    ELSE Grouped(SubSeq(ds, 1, Len(ds) - 3)) \o <<COMMA>>
         \o SubSeq(ds, Len(ds) - 2, Len(ds))

TokChars(tok) ==
    CASE tok.t = "num" ->
            IF tok.g THEN Grouped(DigitsOf(tok.v, NumDigits(tok.v)))
            ELSE DigitsOf(tok.v, NumDigits(tok.v))
      [] tok.t = "dec" ->
            DigitsOf(tok.v, NumDigits(tok.v)) \o <<DOT>> \o DigitsOf(tok.f, 3)
      [] tok.t = "date" ->
            DigitsOf(tok.a, tok.al) \o <<OTHER_CH>> \o DigitsOf(tok.b, tok.bl)
            \o <<OTHER_CH>> \o DigitsOf(tok.c, tok.cl)
      [] tok.t = "cur" -> <<CUR0>> \o [i \in 1..(Len(tok.s) - 1) |-> CUR1]
      [] tok.t = "pan" -> [i \in 1..10 |-> IF i \in 6..9 THEN i - 5 ELSE OTHER_CH]
      [] OTHER -> [i \in 1..TokLen(tok) |-> OTHER_CH]

RECURSIVE Chars(_)
Chars(stream) ==
    IF stream = <<>> THEN <<>>
    ELSE IF Len(stream) = 1 THEN TokChars(stream[1])
    ELSE TokChars(Head(stream)) \o <<SPACE>> \o Chars(Tail(stream))

\* the index in Chars(stream) of the first character of token i
TokStart(stream, i) == LineLen(SubSeq(stream, 1, i - 1)) + (IF i > 1 THEN 2 ELSE 1)

IsDigit(c) == c \in 0..9

RECURSIVE ReadNumber(_, _, _)
\* float(raw.replace(",", "")) of the run [0-9][0-9,]* that starts at p,
\* continued from the value acc
ReadNumber(chars, p, acc) ==
    IF p > Len(chars) THEN acc
    ELSE IF IsDigit(chars[p]) THEN ReadNumber(chars, p + 1, 10 * acc + chars[p])
    ELSE IF chars[p] = COMMA THEN ReadNumber(chars, p + 1, acc)
    ELSE acc

RECURSIVE SkipClass(_, _, _)
\* the first index from p on whose character is not in class cs
SkipClass(chars, p, cs) ==
    IF p <= Len(chars) /\ chars[p] \in cs THEN SkipClass(chars, p + 1, cs) ELSE p

\* (?:\.\d+)? after the run that ends before e: the thousandths it adds
Fraction(chars, e) ==
    IF e + 3 <= Len(chars) /\ chars[e] = DOT
       /\ \A i \in 1..3 : IsDigit(chars[e + i])
    THEN 100 * chars[e + 1] + 10 * chars[e + 2] + chars[e + 3]
    ELSE 0

\* _to_amount of the number that starts at p, in thousandths of a rupee
_to_amount(chars, p) ==
    1000 * ReadNumber(chars, p, 0) + Fraction(chars, SkipClass(chars, p, 0..10))

(***************************************************************************)
(* Field extractor                                                         *)
(***************************************************************************)
\* Where the lower-cased phrases of the inputs contain a search string:
\* <<phrase, search string, characters of the phrase after the occurrence>>.
KeywordHits ==
    { <<"Net Salary:", "net salary", 1>>,
      <<"Gross Salary:", "gross salary", 1>>,
      <<"Income", "income", 0>>,
      <<"EMI:", "emi", 1>>,
      <<"Total EMI:", "emi", 1>>,
      <<"Total EMI:", "total emi", 1>>,
      <<"Premium", "emi", 2>>,
      <<"Outstanding:", "outstanding", 1>>,
      <<"Credit Score:", "credit score", 1>>,
      <<"CIBIL Score", "credit score", 0>>,
      <<"Salary Slip", "salary slip", 0>>,
      <<"Salary Statement", "salary statement", 0>>,
      <<"Bank Statement Summary", "bank statement summary", 0>>,
      <<"PAN Card", "pan", 5>>,
      <<"Company", "pan", 1>>,
      <<"Permanent Account Number", "permanent account number", 0>> }

\* the characters after keyword k in phrase s, or -1 when s does not contain k
After(s, k) ==
    IF \E h \in KeywordHits : h[1] = s /\ h[2] = k
    THEN (CHOOSE h \in KeywordHits : h[1] = s /\ h[2] = k)[3]
    ELSE -1

ContainsKeyword(tok, k) == tok.t = "w" /\ After(tok.s, k) >= 0

\* the index in Chars(stream) of the character after keyword k in token i
KeywordEnd(stream, i, k) ==
    TokStart(stream, i) + Len(stream[i].s) - After(stream[i].s, k)

MinOf(S) == CHOOSE x \in S : \A y \in S : x <= y

\* ((?:cur)\s*)?([0-9][0-9,]*...) matches at p: the index where group 2
\* starts, or 0
AmountStartAt(chars, p) ==
    IF p > Len(chars) THEN 0
    ELSE IF IsDigit(chars[p]) THEN p
    ELSE IF chars[p] = CUR0
         THEN LET q == SkipClass(chars, SkipClass(chars, p + 1, {CUR1}), {SPACE})
              IN  IF q <= Len(chars) /\ IsDigit(chars[q]) THEN q ELSE 0
    ELSE 0

\* re.search of one keyword: keyword, .{0,120}? and the amount; -1 for no match
KeywordAmount(stream, chars, k) ==
    LET hits == {i \in 1..Len(stream) :
                    /\ ContainsKeyword(stream[i], k)
                    /\ \E d \in 0..120 :
                          AmountStartAt(chars, KeywordEnd(stream, i, k) + d) > 0}
    IN  IF hits = {} THEN -1
        ELSE LET e == KeywordEnd(stream, MinOf(hits), k)
                 d == MinOf({x \in 0..120 : AmountStartAt(chars, e + x) > 0})
             IN  _to_amount(chars, AmountStartAt(chars, e + d))

RECURSIVE FindAmountFrom(_, _, _)
FindAmountFrom(stream, chars, keywords) ==
    IF keywords = <<>> THEN -1
    ELSE LET m == KeywordAmount(stream, chars, Head(keywords))
         IN  IF m >= 0 THEN m ELSE FindAmountFrom(stream, chars, Tail(keywords))

\* the amount in thousandths, or -1 for None
_find_amount_after_keywords(stream, keywords) ==
    FindAmountFrom(stream, Chars(stream), keywords)

SALARY_KEYWORDS ==
    <<"monthly salary", "net salary", "net pay", "salary credited", "take home",
      "gross salary", "income">>
EMI_KEYWORDS == <<"emi", "monthly installment", "loan emi", "total emi", "obligation">>
OUTSTANDING_KEYWORDS ==
    <<"outstanding", "principal outstanding", "loan outstanding", "total due">>

\* [3-9][0-9]{2} matches at p
ScoreAt(chars, p) ==
    /\ p + 2 <= Len(chars)
    /\ chars[p] \in 3..9
    /\ IsDigit(chars[p + 1])
    /\ IsDigit(chars[p + 2])

\* the score, or -1 for None
_find_credit_score(stream) ==
    LET chars == Chars(stream)
        k == "credit score"
        hits == {i \in 1..Len(stream) :
                    /\ ContainsKeyword(stream[i], k)
                    /\ \E d \in 0..30 : ScoreAt(chars, KeywordEnd(stream, i, k) + d)}
    IN  IF hits = {} THEN -1
        ELSE LET e == KeywordEnd(stream, MinOf(hits), k)
                 p == e + MinOf({x \in 0..30 : ScoreAt(chars, e + x)})
             IN  100 * chars[p] + 10 * chars[p + 1] + chars[p + 2]

(***************************************************************************)
(* Month keys                                                              *)
(***************************************************************************)
Key(y, m) == [y |-> y, m |-> m]

\* key a sorts before key b, as the strings "YYYY-MM" do
KeyLess(a, b) == a.y < b.y \/ (a.y = b.y /\ a.m < b.m)

\* (20[0-9]{2}): four plain digits that start with 20
IsYearTok(tok) == tok.t = "num" /\ ~tok.g /\ tok.v \in 2000..2099

_extract_month_keys_from_named_months(toks) ==
    { Key(IF i < Len(toks) /\ IsYearTok(toks[i + 1]) THEN toks[i + 1].v ELSE 0,
          toks[i].v) : i \in {j \in 1..Len(toks) : toks[j].t = "mon"} }

\* 2000 + yy if yy < 100 else yy
FullYear(yy) == IF yy < 100 THEN 2000 + yy ELSE yy

\* ([0-3]?\d)
DayPart(v, l) == l = 1 \/ (l = 2 /\ v <= 39)
\* ([0-1]?\d)
MonthPart(v, l) == l = 1 \/ (l = 2 /\ v <= 19)
\* ((?:20)?\d{2})
YearPart(v, l) == l = 2 \/ (l = 4 /\ v \in 2000..2099)

_extract_month_keys_from_dates(toks) ==
    LET dates == {toks[i] : i \in {j \in 1..Len(toks) : toks[j].t = "date"}}
        dmy == {d \in dates : DayPart(d.a, d.al) /\ MonthPart(d.b, d.bl)
                               /\ YearPart(d.c, d.cl)}
        ymd == {d \in dates : YearPart(d.a, d.al) /\ MonthPart(d.b, d.bl)
                               /\ DayPart(d.c, d.cl)}
    IN  {Key(FullYear(d.c), d.b) : d \in {x \in dmy : x.b \in 1..12}}
        \cup {Key(FullYear(d.a), d.b) : d \in {x \in ymd : x.b \in 1..12}}

\* amount_like matches a line as soon as the line holds a digit
HasAmountLike(line) == \E i \in 1..Len(line) : line[i].t \in {"num", "dec", "date", "pan"}

RECURSIVE TxMonths(_)
TxMonths(lines) ==
    IF lines = <<>> THEN {}
    ELSE LET line == Head(lines)
             byDate == _extract_month_keys_from_dates(line)
             keys == IF ~HasAmountLike(line) THEN {}
                     ELSE IF byDate # {} THEN byDate
                     ELSE _extract_month_keys_from_named_months(line)
         IN  keys \cup TxMonths(Tail(lines))

_transaction_statement_months(lines) == TxMonths(lines)

RECURSIVE Within(_, _)
\* the longest prefix of toks that fits in n characters after a blank
Within(toks, n) ==
    IF toks = <<>> \/ TokLen(Head(toks)) + 1 > n THEN <<>>
    ELSE <<Head(toks)>> \o Within(Tail(toks), n - TokLen(Head(toks)) - 1)

_summary_statement_months(lines) ==
    LET stream == Stream(lines)
        k == "bank statement summary"
        hits == {i \in 1..Len(stream) : ContainsKeyword(stream[i], k)}
    IN  IF hits = {} THEN {}
        ELSE LET i == MinOf(hits)
                 section == Within(SubSeq(stream, i + 1, Len(stream)),
                                   2500 - After(stream[i].s, k))
             IN  _extract_month_keys_from_dates(section)
                 \cup _extract_month_keys_from_named_months(section)

_estimate_statement_months(lines, bank_doc_count) ==
    LET tx_months == _transaction_statement_months(lines)
        summary_months == _summary_statement_months(lines)
    IN  IF tx_months # {} THEN Max(1, Min(12, Cardinality(tx_months)))
        ELSE IF Cardinality(summary_months) >= 3
             THEN Max(1, Min(12, Cardinality(summary_months)))
        ELSE Max(1, bank_doc_count)

(***************************************************************************)
(* Salary table parser                                                     *)
(*                                                                         *)
(* A SalaryRow is [month, employer, amount, confidence].  The two row      *)
(* patterns are matched over the tokens of a line; the employer of a       *)
(* delimited row is a run of W tokens, that of a spaced row a run of W,    *)
(* Cur and Mon tokens (the lines of the inputs have no other shape).       *)
(***************************************************************************)
MONTH_NAMES ==
    <<"jan", "feb", "mar", "apr", "may", "jun", "jul", "aug", "sep", "oct", "nov", "dec">>

\* the phrases of the inputs with a character outside [A-Za-z0-9&.,'()\- ]
NotEmployerPhrases ==
    {"Net Salary:", "Gross Salary:", "EMI:", "Total EMI:", "Outstanding:",
     "Credit Score:", "Acme Corp:"}

\* str.strip(" :-|") on the phrases of the inputs
StripEmployer(s) == IF s = "Acme Corp:" THEN "Acme Corp" ELSE s

TokText(tok) ==
    CASE tok.t = "w" -> tok.s
      [] tok.t = "cur" -> tok.s
      [] tok.t = "mon" -> MONTH_NAMES[tok.v]
      [] OTHER -> ""

RECURSIVE JoinText(_)
JoinText(toks) ==
    IF toks = <<>> THEN ""
    ELSE IF Len(toks) = 1 THEN TokText(toks[1])
    ELSE TokText(Head(toks)) \o " " \o JoinText(Tail(toks))

\* ((?:cur)?\s*[0-9][0-9,]*...) matches the tokens from position e on:
\* the amount in thousandths, or -1
AmountTokens(line, e) ==
    LET q == IF e <= Len(line) /\ line[e].t = "cur" THEN e + 1 ELSE e
    IN  IF q > Len(line) THEN -1
        ELSE IF line[q].t = "num" THEN 1000 * line[q].v
        ELSE IF line[q].t = "dec" THEN 1000 * line[q].v + line[q].f
        ELSE IF line[q].t = "date" THEN 1000 * line[q].a
        ELSE -1

\* after the month at i and an optional year: the index of the next token
AfterMonth(line, i) ==
    IF i < Len(line) /\ IsYearTok(line[i + 1]) THEN i + 2 ELSE i + 1

YearText(line, i) ==
    IF i < Len(line) /\ IsYearTok(line[i + 1]) THEN line[i + 1].v ELSE 0

\* delim_pattern matched with its month at token i: [ok, year, employer, amount]
DelimMatchAt(line, i) ==
    LET j == AfterMonth(line, i)
        seps == {e \in (j + 1)..Len(line) : line[e].t = "sep"}
        e == IF seps = {} THEN 0 ELSE MinOf(seps)
        region == IF e = 0 THEN <<>> ELSE SubSeq(line, j + 1, e - 1)
    IN  IF /\ line[i].t = "mon"
           /\ j <= Len(line) /\ line[j].t = "sep"
           /\ e > j + 1
           /\ \A x \in 1..Len(region) : region[x].t = "w"
           /\ LineLen(region) \in 1..80
           /\ AmountTokens(line, e + 1) >= 0
        THEN [ok |-> TRUE, month |-> line[i].v, year |-> YearText(line, i),
              employer |-> JoinText(region), amount |-> AmountTokens(line, e + 1)]
        ELSE [ok |-> FALSE]

EmployerTok(tok) ==
    \/ tok.t \in {"cur", "mon"}
    \/ tok.t = "w" /\ tok.s \notin NotEmployerPhrases

\* space_pattern matched with its month at token i
SpaceMatchAt(line, i) ==
    LET j == AfterMonth(line, i)
        ends == {e \in j..(Len(line) - 1) :
                    /\ \A x \in j..e : EmployerTok(line[x])
                    /\ LineLen(SubSeq(line, j, e)) \in 3..81
                    /\ AmountTokens(line, e + 1) >= 0}
    IN  IF line[i].t = "mon" /\ ends # {}
        THEN LET e == MinOf(ends)
             IN  [ok |-> TRUE, month |-> line[i].v, year |-> YearText(line, i),
                  employer |-> JoinText(SubSeq(line, j, e)),
                  amount |-> AmountTokens(line, e + 1)]
        ELSE [ok |-> FALSE]

\* delim_pattern.search(line) or space_pattern.search(line)
MatchSalaryLine(line) ==
    LET ds == {i \in 1..Len(line) : DelimMatchAt(line, i).ok}
        ss == {i \in 1..Len(line) : SpaceMatchAt(line, i).ok}
    IN  IF ds # {} THEN DelimMatchAt(line, MinOf(ds))
        ELSE IF ss # {} THEN SpaceMatchAt(line, MinOf(ss))
        ELSE [ok |-> FALSE]

\* the row appended for a matching line; the year defaults to the clock's
RowOfMatch(m, now) ==
    LET employer == StripEmployer(m.employer)
    IN  [month |-> Key(IF m.year = 0 THEN now.y ELSE m.year, m.month),
         employer |-> IF employer = "" THEN "Extracted Employer" ELSE employer,
         amount |-> RoundDiv(m.amount, 10),
         confidence |-> 92]

RECURSIVE ParsedRows(_, _)
ParsedRows(lines, now) ==
    IF lines = <<>> THEN <<>>
    ELSE LET m == MatchSalaryLine(Head(lines))
         IN  (IF m.ok THEN <<RowOfMatch(m, now)>> ELSE <<>>)
             \o ParsedRows(Tail(lines), now)

SameKey(a, b) == a.month = b.month /\ a.employer = b.employer

RECURSIVE DedupFirst(_, _)
DedupFirst(rows, acc) ==
    IF rows = <<>> THEN acc
    ELSE IF \E p \in 1..Len(acc) : SameKey(acc[p], Head(rows))
         THEN DedupFirst(Tail(rows), acc)
         ELSE DedupFirst(Tail(rows), Append(acc, Head(rows)))

RECURSIVE Dedup(_, _)
\* dedup[(row.month, row.employer)] = row, for the rows in order: a dict keeps
\* the position of a key's first insertion and the value of its last
Dedup(rows, acc) ==
    IF rows = <<>> THEN acc
    ELSE IF \E p \in 1..Len(acc) : SameKey(acc[p], Head(rows))
         THEN LET p == CHOOSE q \in 1..Len(acc) : SameKey(acc[q], Head(rows))
              IN  Dedup(Tail(rows), [acc EXCEPT ![p] = Head(rows)])
         ELSE Dedup(Tail(rows), Append(acc, Head(rows)))

HasSalaryLabel(lines) ==
    \E i \in 1..Len(Stream(lines)) :
        \E label \in SALARY_TABLE_LABELS : ContainsKeyword(Stream(lines)[i], label)

_extract_salary_rows_from_labeled_tables(lines, now) ==
    IF ~HasSalaryLabel(lines) THEN <<>>
    ELSE Dedup(ParsedRows(lines, now), <<>>)

RECURSIVE InsertByMonth(_, _)
\* r placed after the rows whose month is not greater (a stable sort's step)
InsertByMonth(sorted, r) ==
    IF sorted = <<>> THEN <<r>>
    ELSE IF KeyLess(r.month, Head(sorted).month) THEN <<r>> \o sorted
    ELSE <<Head(sorted)>> \o InsertByMonth(Tail(sorted), r)

\* the rows left in the order they were parsed in
SortByMonthNone(rows) == rows

RECURSIVE SortByMonth(_)
\* sorted(rows, key=lambda r: r.month): stable
SortByMonth(rows) ==
    IF rows = <<>> THEN <<>>
    ELSE InsertByMonth(SortByMonth(SubSeq(rows, 1, Len(rows) - 1)), rows[Len(rows)])

\* every row takes the year of the current month
BuildSalaryBreakdownSameYear(salary, confidence, now) ==
    [k \in 1..3 |->
        LET i == 4 - k
        IN  [month |-> Key(now.y, ((now.m - i - 1) % 12) + 1),
             employer |-> "Extracted Employer",
             amount |-> RoundDiv(salary, 10),
             confidence |-> confidence]]

_build_salary_breakdown(salary, confidence, now) ==
    [k \in 1..3 |->
        LET i == 4 - k
        IN  [month |-> Key(IF now.m > i THEN now.y ELSE now.y - 1,
                           ((now.m - i - 1) % 12) + 1),
             employer |-> "Extracted Employer",
             amount |-> RoundDiv(salary, 10),
             confidence |-> confidence]]

(***************************************************************************)
(* Document classifier                                                     *)
(***************************************************************************)
\* Where the lower-cased file names of the inputs contain a search string.
FilenameHits ==
    { <<"pan_card", "pan">>,
      <<"company_id", "pan">>, <<"company_id", "id">>,
      <<"bank_statement", "bank">>, <<"bank_statement", "statement">>,
      <<"salary_slip", "salary">>,
      <<"payslip", "payslip">>,
      <<"aadhaar", "aadhaar">>,
      <<"itr_2025", "itr">>,
      <<"pan_bank_statement", "pan">>, <<"pan_bank_statement", "bank">>,
      <<"pan_bank_statement", "statement">>,
      <<"company_statement", "pan">>, <<"company_statement", "statement">>,
      <<"salary_statement", "salary">>, <<"salary_statement", "statement">>,
      <<"payslip_id", "payslip">>, <<"payslip_id", "id">>,
      <<"aadhar_itr", "aadhar">>, <<"aadhar_itr", "itr">>,
      <<"paid", "id">> }

InName(filename, k) == <<filename.stem, k>> \in FilenameHits

InText(lines, k) == \E i \in 1..Len(Stream(lines)) : ContainsKeyword(Stream(lines)[i], k)

\* \b[A-Z]{5}[0-9]{4}[A-Z]\b is found in the upper-cased text
_is_pan_match(lines) == \E i \in 1..Len(Stream(lines)) : Stream(lines)[i].t = "pan"

\* the bank/statement rule is tried before the PAN rule
ClassifyBankFirst(filename, lines) ==
    IF InName(filename, "bank") \/ InName(filename, "statement") THEN "bank_statement"
    ELSE IF \/ InName(filename, "pan")
            \/ InName(filename, "permanent account number")
            \/ InText(lines, "pan")
            \/ InText(lines, "permanent account number")
            \/ _is_pan_match(lines)
    THEN "pan_card"
    ELSE IF InName(filename, "salary") \/ InName(filename, "payslip") THEN "salary_slip"
    ELSE IF InName(filename, "aadhaar") \/ InName(filename, "aadhar") \/ InName(filename, "id")
         THEN "id_proof"
    ELSE IF InName(filename, "itr") THEN "itr"
    ELSE "other"

classify_document_type(filename, lines) ==
    IF \/ InName(filename, "pan")
       \/ InName(filename, "permanent account number")
       \/ InText(lines, "pan")
       \/ InText(lines, "permanent account number")
       \/ _is_pan_match(lines)
    THEN "pan_card"
    ELSE IF InName(filename, "bank") \/ InName(filename, "statement") THEN "bank_statement"
    ELSE IF InName(filename, "salary") \/ InName(filename, "payslip") THEN "salary_slip"
    ELSE IF InName(filename, "aadhaar") \/ InName(filename, "aadhar") \/ InName(filename, "id")
         THEN "id_proof"
    ELSE IF InName(filename, "itr") THEN "itr"
    ELSE "other"

(***************************************************************************)
(* The pipeline                                                            *)
(***************************************************************************)
RECURSIVE MergeTexts(_)
\* "\n".join(all_text), all_text the non-blank texts in document order
MergeTexts(texts) ==
    IF texts = <<>> THEN <<>>
    ELSE (IF NonBlank(Head(texts)) THEN Head(texts) ELSE <<>>) \o MergeTexts(Tail(texts))

RECURSIVE CountOf(_, _)
CountOf(s, x) ==
    IF s = <<>> THEN 0 ELSE (IF Head(s) = x THEN 1 ELSE 0) + CountOf(Tail(s), x)

\* value if value is not None else 0
OrZero(v) == IF v < 0 THEN 0 ELSE v

\* (ocr_used, ocr_avg_conf) -> processing["low_quality"]
LowQuality(ocr_used, ocr_avg_conf) == ocr_used /\ ocr_avg_conf < OCR_MIN_CONFIDENCE

\* a keyword amount, when there is one, is preferred to the table
ChooseSalaryKeywordFirst(salary_rows, keyword_salary) ==
    IF keyword_salary >= 0 \/ salary_rows = <<>>
    THEN [salary |-> OrZero(keyword_salary), source |-> "keyword"]
    ELSE [salary |->
             10 * RoundDiv(SumSeq([i \in 1..Len(salary_rows) |-> salary_rows[i].amount]),
                           Len(salary_rows)),
          source |-> "structured_table"]

\* the salary rows and the keyword amount -> (salary, salary_source); the
\* salary in thousandths
ChooseSalary(salary_rows, keyword_salary) ==
    IF salary_rows # <<>>
    THEN [salary |->
             10 * RoundDiv(SumSeq([i \in 1..Len(salary_rows) |-> salary_rows[i].amount]),
                           Len(salary_rows)),
          source |-> "structured_table"]
    ELSE [salary |-> OrZero(keyword_salary), source |-> "keyword"]

\* extract_structured_data is modelled by its phases, each of which adds the
\* locals it assigns to the record c of the locals assigned so far.

\* the loop over the documents: text and info of each
ReadDocuments(documents, now) ==
    [documents |-> documents,
     now |-> now,
     read |-> [i \in 1..Len(documents) |-> _read_text_from_document(documents[i])]]

\* doc_types, ocr_flags, ocr_conf_scores and the merged text
MergeDocuments(c) ==
    c @@ [doc_types |->
             [i \in 1..Len(c.documents) |->
                classify_document_type(c.documents[i].filename, c.read[i].text)],
          merged_text |-> MergeTexts([i \in 1..Len(c.documents) |-> c.read[i].text]),
          ocr_used |-> \E i \in 1..Len(c.documents) : c.read[i].info.ocr_used,
          ocr_avg_conf |->
             IF Len(c.documents) > 0
             THEN RoundDiv(SumSeq([i \in 1..Len(c.documents) |->
                                      c.read[i].info.ocr_confidence]),
                           Len(c.documents))
             ELSE 0]

\* the searches of the merged text
SearchText(c) ==
    c @@ [salary_rows |->
             SortByMonth(_extract_salary_rows_from_labeled_tables(c.merged_text, c.now)),
          keyword_salary |->
             _find_amount_after_keywords(Stream(c.merged_text), SALARY_KEYWORDS),
          emi |-> OrZero(_find_amount_after_keywords(Stream(c.merged_text), EMI_KEYWORDS)),
          outstanding |->
             OrZero(_find_amount_after_keywords(Stream(c.merged_text), OUTSTANDING_KEYWORDS)),
          credit_score |-> OrZero(_find_credit_score(Stream(c.merged_text))),
          bank_statement_months |->
             _estimate_statement_months(c.merged_text,
                                        CountOf(c.doc_types, "bank_statement"))]

\* salary and salary_source
SetSalary(c) ==
    c @@ [chosen |-> ChooseSalary(c.salary_rows, c.keyword_salary)]

\* parsed_fields: how many of salary, emi, outstanding, credit_score are > 0
ParsedFields(salary, emi, outstanding, credit_score) ==
    Cardinality({f \in {"salary", "emi", "outstanding", "credit_score"} :
                    CASE f = "salary" -> salary > 0
                      [] f = "emi" -> emi > 0
                      [] f = "outstanding" -> outstanding > 0
                      [] OTHER -> credit_score > 0})

\* parse_conf falls with every parsed field
FinalConfFewerIsBetter(ocr_used, ocr_avg_conf, merged_text, parsed_fields) ==
    RoundDiv((IF ocr_used THEN ocr_avg_conf
              ELSE IF NonBlank(merged_text) THEN 92 ELSE 0)
             + Max(50, 95 - 10 * parsed_fields), 2)

\* final_conf from ocr_used, ocr_avg_conf, the text and parsed_fields
FinalConf(ocr_used, ocr_avg_conf, merged_text, parsed_fields) ==
    RoundDiv((IF ocr_used THEN ocr_avg_conf
              ELSE IF NonBlank(merged_text) THEN 92 ELSE 0)
             + Min(95, 50 + 10 * parsed_fields), 2)

\* emi_ratio and final_conf
SetConfidence(c) ==
    c @@ [emi_ratio |->
             IF c.chosen.salary > 0 THEN RoundPercent(c.emi, c.chosen.salary) ELSE 0,
          final_conf |->
             FinalConf(c.ocr_used, c.ocr_avg_conf, c.merged_text,
                       ParsedFields(c.chosen.salary, c.emi, c.outstanding,
                                    c.credit_score))]

\* salary_breakdown: the table's rows, or three months of the keyword salary
SetBreakdown(c) ==
    c @@ [salary_breakdown |->
             IF c.salary_rows # <<>>
             THEN [i \in 1..Len(c.salary_rows) |->
                     [c.salary_rows[i] EXCEPT !.confidence = Max(@, c.final_conf)]]
             ELSE IF c.chosen.salary > 0
             THEN _build_salary_breakdown(c.chosen.salary, c.final_conf, c.now)
             ELSE <<>>]

\* ordered: the breakdown sorted by month
SetOrdered(c) ==
    c @@ [ordered |-> SortByMonth(c.salary_breakdown)]

\* the tuple returned, with the (text, info) of each document kept beside it
Returned(c) ==
    [raised |-> FALSE,
     extracted |->
        [monthly_salary |-> RoundDiv(c.chosen.salary, 10),
         latest_monthly_salary |->
            IF c.salary_breakdown # <<>> THEN c.ordered[Len(c.ordered)].amount ELSE 0,
         average_monthly_salary |->
            IF c.salary_breakdown # <<>>
            THEN RoundDiv(SumSeq([i \in 1..Len(c.ordered) |-> c.ordered[i].amount]),
                          Len(c.ordered))
            ELSE 0,
         monthly_obligations |-> RoundDiv(c.emi, 10),
         annual_income |-> RoundDiv(c.chosen.salary * 12, 10),
         emi_ratio_percent |-> c.emi_ratio,
         credit_score |-> c.credit_score,
         bank_statement_months |-> c.bank_statement_months,
         documents_uploaded |-> [i \in 1..Len(c.documents) |-> c.documents[i].filename],
         document_types_detected |-> c.doc_types,
         ocr_average_confidence |-> c.final_conf,
         name_match_score |-> 90,
         salary_extraction_source |-> c.chosen.source],
     salary_breakdown |-> c.salary_breakdown,
     obligations |->
        IF c.emi > 0 \/ c.outstanding > 0
        THEN <<[lender |-> "Extracted Lender", obligation_type |-> "Loan EMI",
                monthly_amount |-> RoundDiv(c.emi, 10),
                outstanding_amount |-> RoundDiv(c.outstanding, 10)]>>
        ELSE <<>>,
     processing |->
        [ocr_used |-> c.ocr_used,
         ocr_confidence |-> c.ocr_avg_conf,
         text_length |-> TextLen(c.merged_text),
         low_quality |-> LowQuality(c.ocr_used, c.ocr_avg_conf)],
     acquired |-> c.read]

\* what extract_structured_data returns; [raised |-> TRUE] when an exception
\* leaves a read
ReturnedOrRaised(c) ==
    IF \E i \in 1..Len(c.read) : c.read[i].exc THEN [raised |-> TRUE]
    ELSE Returned(SetOrdered(SetBreakdown(SetConfidence(SetSalary(SearchText(
            MergeDocuments(c)))))))

extract_structured_data(documents, now) ==
    ReturnedOrRaised(ReadDocuments(documents, now))

(***************************************************************************)
(* Checklist engine and query predictor                                    *)
(*                                                                         *)
(* The tables are read from the data directory at every call; cfg is what  *)
(* the files hold.  A dict is a record; d.get(k, default) is Get.          *)
(***************************************************************************)
_load_json(filename) ==
    CASE filename = "document_checklist.json" -> cfg.checklist
      [] filename = "pending_forms.json" -> cfg.pending_forms
      [] filename = "historical_queries.json" -> cfg.historical_queries

\* d.get(k, default)
Get(d, k, default) == IF k \in DOMAIN d THEN d[k] ELSE default

\* x in xs, for a list xs
InList(x, xs) == \E i \in 1..Len(xs) : xs[i] = x

\* the missing document types, last required first
MissingReversed(doc_types) ==
    LET found == SelectSeq(Get(_load_json("document_checklist.json"),
                               "required_documents", <<>>),
                           LAMBDA doc : ~InList(doc, doc_types))
    IN  [i \in 1..Len(found) |-> found[Len(found) + 1 - i]]

\* the required document types that are not among doc_types, in their order
detect_missing_documents(doc_types) ==
    SelectSeq(Get(_load_json("document_checklist.json"), "required_documents", <<>>),
              LAMBDA doc : ~InList(doc, doc_types))

PendingFormItem(form, reason) ==
    [form_code |-> form.code, form_name |-> form.name, reason |-> reason]

\* the credit score rule holds at 700 too
PendingOfAtMost700(form, extracted_data, missing_documents) ==
    LET rule == Get(form, "trigger_rule", "")
    IN  IF rule = "if_missing_income_proof"
           /\ \E d \in {"salary_slip", "itr", "bank_statement"} :
                 InList(d, missing_documents)
        THEN <<PendingFormItem(form, "Income proof documents are incomplete")>>
        ELSE IF rule = "if_credit_score_below_700"
                /\ Get(extracted_data, "credit_score", 0) <= 700
        THEN <<PendingFormItem(form, "Credit score below preferred threshold")>>
        ELSE IF rule = "if_name_match_below_0_9"
                /\ Get(extracted_data, "name_match_score", 100) < 90
        THEN <<PendingFormItem(form, "Name mismatch risk in submitted documents")>>
        ELSE <<>>

\* what the loop body appends for one form
PendingOf(form, extracted_data, missing_documents) ==
    LET rule == Get(form, "trigger_rule", "")
    IN  IF rule = "if_missing_income_proof"
           /\ \E d \in {"salary_slip", "itr", "bank_statement"} :
                 InList(d, missing_documents)
        THEN <<PendingFormItem(form, "Income proof documents are incomplete")>>
        ELSE IF rule = "if_credit_score_below_700"
                /\ Get(extracted_data, "credit_score", 0) < 700
        THEN <<PendingFormItem(form, "Credit score below preferred threshold")>>
        ELSE IF rule = "if_name_match_below_0_9"
                /\ Get(extracted_data, "name_match_score", 100) < 90
        THEN <<PendingFormItem(form, "Name mismatch risk in submitted documents")>>
        ELSE <<>>

RECURSIVE PendingFrom(_, _, _)
PendingFrom(forms, extracted_data, missing_documents) ==
    IF forms = <<>> THEN <<>>
    ELSE PendingOf(Head(forms), extracted_data, missing_documents)
         \o PendingFrom(Tail(forms), extracted_data, missing_documents)

detect_pending_forms(extracted_data, missing_documents) ==
    PendingFrom(Get(_load_json("pending_forms.json"), "forms", <<>>),
                extracted_data, missing_documents)

\* re.findall(r"[a-z_]+", s.lower()) as a set, for the strings that occur:
\* a document type consists of such characters only
WordTokens(s) ==
    CASE s = "FORM_16" -> {"form_"}
      [] s = "ITR-V" -> {"itr", "v"}
      [] s = "KYC" -> {"kyc"}
      [] OTHER -> {s}

\* tokens: of the missing documents and form codes, and the synthetic ones
QueryTokens(extracted_data, missing_documents, pending_forms) ==
    UNION {WordTokens(missing_documents[i]) : i \in 1..Len(missing_documents)}
    \cup UNION {WordTokens(pending_forms[i].form_code) : i \in 1..Len(pending_forms)}
    \cup (IF Get(extracted_data, "emi_ratio_percent", 0) > 4000 THEN {"high_emi"} ELSE {})
    \cup (IF Get(extracted_data, "credit_score", 0) < 700 THEN {"low_credit"} ELSE {})

\* overlap: how many of the tokens are tags of the row
Overlap(tokens, row) ==
    Cardinality(tokens \cap {Get(row, "tags", <<>>)[i] :
                                i \in 1..Len(Get(row, "tags", <<>>))})

\* score, in hundredths
Score(tokens, row) ==
    Min(99, Get(row, "base_confidence", 50) + 8 * Overlap(tokens, row))

RECURSIVE Scored(_, _)
\* scored: (score, row) of the rows with an overlap, in catalog order
Scored(tokens, rows) ==
    IF rows = <<>> THEN <<>>
    ELSE (IF Overlap(tokens, Head(rows)) > 0
          THEN <<[score |-> Score(tokens, Head(rows)), row |-> Head(rows)]>>
          ELSE <<>>)
         \o Scored(tokens, Tail(rows))

RECURSIVE InsertByScore(_, _)
\* item placed after the items whose score is not smaller
InsertByScore(sorted, item) ==
    IF sorted = <<>> THEN <<item>>
    ELSE IF item.score > Head(sorted).score THEN <<item>> \o sorted
    ELSE <<Head(sorted)>> \o InsertByScore(Tail(sorted), item)

RECURSIVE SortByScore(_)
\* scored.sort(key=score, reverse=True): stable, highest score first
SortByScore(items) ==
    IF items = <<>> THEN <<>>
    ELSE InsertByScore(SortByScore(SubSeq(items, 1, Len(items) - 1)), items[Len(items)])

\* the first rows of the catalog with an overlap, unsorted and without a limit
TopUnlimited(scored, rows) ==
    IF scored # <<>> THEN scored
    ELSE IF rows # <<>> THEN <<[score |-> 62, row |-> rows[1]]>>
    ELSE <<>>

\* without the fallback to the first row of the catalog
TopNoFallback(scored, rows) ==
    SubSeq(SortByScore(scored), 1, Min(3, Len(scored)))

\* top: the three best of scored, or the first row of the catalog at 0.62
Top(scored, rows) ==
    IF scored # <<>> THEN SubSeq(SortByScore(scored), 1, Min(3, Len(scored)))
    ELSE IF rows # <<>> THEN <<[score |-> 62, row |-> rows[1]]>>
    ELSE <<>>

PredictedQuery(item) ==
    [query |-> item.row.query,
     confidence |-> item.score,
     rationale |-> Get(item.row, "tags", <<>>)]

\* the queries predicted from the tokens
PredictFrom(tokens, rows) ==
    LET top == Top(Scored(tokens, rows), rows)
    IN  [i \in 1..Len(top) |-> PredictedQuery(top[i])]

predict_credit_queries(extracted_data, missing_documents, pending_forms) ==
    PredictFrom(QueryTokens(extracted_data, missing_documents, pending_forms),
                Get(_load_json("historical_queries.json"), "queries", <<>>))

(***************************************************************************)
(* Report store and upload handler                                         *)
(***************************************************************************)
\* uuid4(): an identifier no stored report has
generate_report_id(st) == Len(st) + 1

\* INSERT OR REPLACE INTO reports, keyed by report_id
save_report(st, report) ==
    IF \E i \in 1..Len(st) : st[i].report_id = report.report_id
    THEN [i \in 1..Len(st) |->
            IF st[i].report_id = report.report_id THEN report ELSE st[i]]
    ELSE Append(st, report)

\* the first check of the per-file loop that raises, as an HTTP status; 0 if none
RECURSIVE ValidateFiles(_)
ValidateFiles(fs) ==
    IF fs = <<>> THEN 0
    ELSE LET f == Head(fs)
         IN  IF f.filename.stem = "" /\ f.filename.suffix = "" THEN 400
             ELSE IF Lower(f.filename.suffix) \notin ALLOWED_EXTENSIONS THEN 400
             ELSE IF f.size > MAX_FILE_SIZE THEN 400
             ELSE ValidateFiles(Tail(fs))

\* predicted_queries, with the lists it is computed from
WithQueries(extracted_data, missing_documents, pending_forms) ==
    [missing_documents |-> missing_documents,
     pending_forms |-> pending_forms,
     predicted_queries |->
        predict_credit_queries(extracted_data, missing_documents, pending_forms)]

\* pending_forms and predicted_queries, with the list they are computed from
WithPending(extracted_data, missing_documents) ==
    WithQueries(extracted_data, missing_documents,
                detect_pending_forms(extracted_data, missing_documents))

\* missing_documents, pending_forms and predicted_queries of the handler
RunChecklist(extracted_data, doc_types) ==
    WithPending(extracted_data, detect_missing_documents(doc_types))

\* doc_types of the handler: each file classified by its name
HandlerDocTypes(fs) ==
    [i \in 1..Len(fs) |-> classify_document_type(fs[i].filename, <<>>)]

\* the row of the reports table
StoredReport(fs, st, ret) ==
    [report_id |-> generate_report_id(st),
     uploaded_count |-> Len(fs),
     low_quality |-> ret.processing.low_quality,
     extracted_data |-> ret.extracted,
     doc_types |-> HandlerDocTypes(fs)]
    @@ RunChecklist(ret.extracted, HandlerDocTypes(fs))

\* the report is stored before the quality of the scan is looked at
RespondSaveFirst(fs, st, ret) ==
    IF ret.raised THEN [status |-> 500, ret |-> ret, store |-> st]
    ELSE [status |-> IF ret.processing.low_quality THEN 422 ELSE 200,
          ret |-> ret,
          store |-> save_report(st, StoredReport(fs, st, ret))]

\* the handler from the call of extract_structured_data on: ret is what the
\* call returned
Respond(fs, st, ret) ==
    IF ret.raised THEN [status |-> 500, ret |-> ret, store |-> st]
    ELSE IF ret.processing.low_quality
    THEN [status |-> 422, ret |-> ret, store |-> st]
    ELSE [status |-> 200, ret |-> ret,
          store |-> save_report(st, StoredReport(fs, st, ret))]

\* upload_report: [status, ret, store] after the handler has run on fs at time now
upload_report(fs, st, now) ==
    IF fs = <<>> THEN [status |-> 400, ret |-> Null, store |-> st]
    ELSE IF ValidateFiles(fs) # 0
    THEN [status |-> 400, ret |-> Null, store |-> st]
    ELSE Respond(fs, st, extract_structured_data(fs, now))

(***************************************************************************)
(* Inputs                                                                  *)
(***************************************************************************)
Entry(tok, conf) == [text |-> tok, conf |-> conf]
Image(entries) == [ok |-> TRUE, data |-> entries]
BadImage == [ok |-> FALSE, data |-> <<>>]
PdfText(lines) == [ok |-> TRUE, lines |-> lines]
BadPdf == [ok |-> FALSE, lines |-> <<>>]
Pages(pages) == [ok |-> TRUE, pages |-> pages]
BadRaster == [ok |-> FALSE, pages |-> <<>>]

Doc(stem, suffix, size, pdf, raster, img) ==
    [filename |-> [stem |-> stem, suffix |-> suffix], size |-> size,
     content |-> [pdf |-> pdf, raster |-> raster, img |-> img]]

\* the wall clock values an invocation may read: [y, m] of datetime.utcnow()
Clock == {[y |-> 2026, m |-> 11], [y |-> 2026, m |-> 12], [y |-> 2027, m |-> 1]}

Before(a, b) == a.y < b.y \/ (a.y = b.y /\ a.m <= b.m)

LnLabel == <<W("Salary Slip")>>
LnJanAcme50 == <<Mon(1), Year(2026), Sep, W("Acme Corp"), Sep, Cur, Num(50000)>>
LnFebAcme52 == <<Mon(2), Year(2026), Sep, W("Acme Corp"), Sep, Cur, Num(52000)>>
LnJanAcme51 == <<Mon(1), Year(2026), Sep, W("Acme Corp:"), Sep, Cur, Num(51000)>>
LnFebBeta60 == <<Mon(2), Year(2026), Sep, W("Beta Ltd"), Sep, Cur, Num(60000)>>
LnMarBeta40 == <<Mon(3), W("Beta Ltd"), Num(40000)>>
LnNetSalary == <<W("Net Salary:"), Cur, Num(55000)>>
LnIncome == <<W("Income"), Mon(1), Year(2026), Num(30000)>>
LnEmi == <<W("EMI:"), Cur, Num(12000)>>
LnOutstanding == <<W("Outstanding:"), Num(250000)>>
LnScore950 == <<W("Credit Score:"), Num(950)>>
LnScore1350 == <<W("CIBIL Score"), Year(1350)>>
LnScore250 == <<W("Credit Score:"), Num(250)>>
LnTxJan == <<Date(12, 2, 1, 2, 2026, 4), W("NEFT"), Num(5000)>>
LnTxFeb == <<Date(2026, 4, 2, 2, 3, 2), W("NEFT"), Num(7000)>>
LnSummary == <<W("Bank Statement Summary"), Mon(1), Mon(2), Mon(3)>>
LnSummaryShort == <<W("Bank Statement Summary"), Mon(1), Mon(2)>>
LnPanNumber == <<W("Name"), Pan("ABCDE1234F")>>

\* the documents of the acquisition cases
EmbeddedPdf ==
    Doc("salary_slip", ".pdf", 1000, PdfText(<<LnLabel, LnJanAcme50>>), BadRaster, BadImage)
ScannedPdf ==
    Doc("bank_statement", ".PDF", 1000, PdfText(<<>>),
        Pages(<<Image(<<Entry(W("Net Salary:"), 96), Entry(Blank, -1), Entry(Num(55000), 96)>>),
                Image(<<Entry(W("EMI:"), 72), Entry(Num(12000), 72)>>)>>),
        BadImage)
BrokenPdf ==
    Doc("payslip", ".pdf", 1000, BadPdf,
        Pages(<<Image(<<Entry(W("Income"), 96), Entry(Num(30000), 96)>>)>>), BadImage)
HalfReadPdf ==
    Doc("itr_2025", ".pdf", 1000, PdfText(<<LnEmi>>),
        Pages(<<Image(<<Entry(W("Outstanding:"), 96), Entry(Num(250000), 96)>>), BadImage>>),
        BadImage)
UnrenderablePdf ==
    Doc("bank_statement", ".pdf", 1000, PdfText(<<>>), BadRaster, BadImage)
ClearImage ==
    Doc("aadhaar", ".png", 1000, BadPdf, BadRaster,
        Image(<<Entry(W("Credit Score:"), 96), Entry(Num(720), 96)>>))
FaintImage ==
    Doc("pan_card", ".jpg", 1000, BadPdf, BadRaster,
        Image(<<Entry(Pan("ABCDE1234F"), 24), Entry(Blank, -1)>>))
BadImageDoc == Doc("scan", ".png", 1000, BadPdf, BadRaster, BadImage)
TextFile ==
    Doc("notes", ".txt", 1000, PdfText(<<LnLabel, LnJanAcme50>>), BadRaster, BadImage)
\* a slip whose net salary is below half a paisa
TinySalaryImage ==
    Doc("payslip", ".png", 1000, BadPdf, BadRaster,
        Image(<<Entry(W("Net Salary:"), 96), Entry(Cur, 96), Entry(Dec(0, 4), 96),
                Entry(W("EMI:"), 96), Entry(Cur, 96), Entry(Num(1), 96)>>))

Docs == {EmbeddedPdf, ScannedPdf, BrokenPdf, HalfReadPdf, UnrenderablePdf,
         ClearImage, FaintImage, BadImageDoc, TextFile, TinySalaryImage}

\* the configuration tables
Form(code, name, rule) == [code |-> code, name |-> name, trigger_rule |-> rule]
Query(query, tags, base) == [query |-> query, tags |-> tags, base_confidence |-> base]

FormsAll ==
    <<Form("FORM_16", "Form 16", "if_missing_income_proof"),
      Form("KYC", "Credit consent", "if_credit_score_below_700"),
      Form("ITR-V", "Name affidavit", "if_name_match_below_0_9"),
      Form("NOC", "No objection", "if_existing_loan"),
      [code |-> "MISC", name |-> "No trigger"]>>

FormsReordered ==
    <<Form("KYC", "Credit consent", "if_credit_score_below_700"),
      Form("FORM_16", "Form 16", "if_missing_income_proof"),
      Form("KYC", "Second consent", "if_credit_score_below_700")>>

QueriesAll ==
    <<Query("Provide the latest salary slips", <<"salary_slip", "itr">>, 70),
      Query("Explain the credit history", <<"low_credit">>, 95),
      Query("Explain the existing loans", <<"high_emi", "low_credit">>, 60),
      [query |-> "Provide the PAN card", tags |-> <<"pan_card">>],
      Query("Confirm the consent form", <<"kyc", "form_">>, 100),
      Query("Provide the bank statements", <<"bank_statement">>, 0)>>

QueriesShort ==
    <<Query("Confirm the employer", <<"employer">>, 100),
      Query("Explain the credit history", <<"low_credit">>, 50)>>

Config(required, forms, queries) ==
    [checklist |-> [required_documents |-> required],
     pending_forms |-> [forms |-> forms],
     historical_queries |-> [queries |-> queries]]

DeployedConfig ==
    Config(<<"pan_card", "salary_slip", "bank_statement">>, FormsAll, QueriesAll)

Configs ==
    {DeployedConfig,
     Config(<<"itr", "id_proof">>, FormsReordered, QueriesShort),
     Config(<<>>, <<>>, <<>>),
     [checklist |-> [version |-> 1], pending_forms |-> [version |-> 1],
      historical_queries |-> [version |-> 1]]}

(***************************************************************************)
(* Spec: the pipeline called on batches of documents                       *)
(***************************************************************************)
Init ==
    /\ files = <<>>
    /\ run = Null
    /\ prev = Null
    /\ store = <<>>
    /\ status = 0
    /\ cfg = DeployedConfig
    /\ call = Null

\* a document is added to the batch
AddFile(d) ==
    /\ Len(files) < MaxDocs
    /\ files' = Append(files, d)
    /\ run' = Null
    /\ prev' = Null
    /\ UNCHANGED <<store, status, cfg, call>>

\* extract_structured_data(files), the clock reading t
Extract(t) ==
    /\ run = Null
    /\ run' = [at |-> t, ret |-> extract_structured_data(files, t)]
    /\ UNCHANGED <<files, prev, store, status, cfg, call>>

\* the same documents are processed again, not earlier than before
Retry(t) ==
    /\ run # Null
    /\ prev = Null
    /\ Before(run.at, t)
    /\ prev' = run
    /\ run' = [at |-> t, ret |-> extract_structured_data(files, t)]
    /\ UNCHANGED <<files, store, status, cfg, call>>

Next ==
    \/ \E d \in Docs : AddFile(d)
    \/ \E t \in Clock : Extract(t)
    \/ \E t \in Clock : Retry(t)

Spec == Init /\ [][Next]_vars

(***************************************************************************)
(* SpecText: the pipeline called on one document whose text is put         *)
(* together line by line                                                   *)
(***************************************************************************)
TextLines ==
    {LnLabel, LnJanAcme50, LnFebAcme52, LnJanAcme51, LnFebBeta60, LnMarBeta40,
     LnNetSalary, LnEmi, LnScore950, LnScore1350}

\* a page image on which the OCR engine reads the tokens of one line
LineImage(line) == Image([i \in 1..Len(line) |-> Entry(line[i], 96)])

\* a PDF whose embedded text is the given lines, each line also a page of its own
TextDoc(lines) ==
    Doc("bank_statement", ".pdf", 1000, PdfText(lines),
        Pages([i \in 1..Len(lines) |-> LineImage(lines[i])]), BadImage)

\* the text of the document of SpecText
Text == files[1].content.pdf.lines

InitText ==
    /\ files = <<TextDoc(<<>>)>>
    /\ run = Null
    /\ prev = Null
    /\ store = <<>>
    /\ status = 0
    /\ cfg = DeployedConfig
    /\ call = Null

\* a line is added to the document
AppendLine(l) ==
    /\ Len(Text) < MaxLines
    /\ files' = <<TextDoc(Append(Text, l))>>
    /\ run' = Null
    /\ prev' = Null
    /\ UNCHANGED <<store, status, cfg, call>>

NextText ==
    \/ \E l \in TextLines : AppendLine(l)
    \/ \E t \in Clock : Extract(t)

SpecText == InitText /\ [][NextText]_vars

(***************************************************************************)
(* SpecBulk: the pipeline called on long batches; the documents with text  *)
(* come first                                                              *)
(***************************************************************************)
TxPdf ==
    Doc("bank_statement", ".pdf", 1000, PdfText(<<LnTxJan, LnTxFeb>>), BadRaster, BadImage)
SummaryPdf ==
    Doc("bank_statement", ".pdf", 1000, PdfText(<<LnSummary, <<W("Acme Corp")>>>>),
        BadRaster, BadImage)
ShortSummaryPdf ==
    Doc("bank_statement", ".pdf", 1000, PdfText(<<LnSummaryShort, <<W("Salary Statement")>>>>),
        BadRaster, BadImage)
\* a statement whose only date stands on a line without an amount
LnStatementDate == <<W("Statement date"), Date(12, 2, 1, 2, 2026, 4)>>
DateOnlyPdf ==
    Doc("bank_statement", ".pdf", 1000,
        PdfText(<<LnStatementDate, <<W("Acme Corp")>>, <<W("NEFT")>>>>), BadRaster, BadImage)

BulkDocs == {UnrenderablePdf, TxPdf, SummaryPdf, ShortSummaryPdf, DateOnlyPdf}

AddBulk(d) ==
    /\ Len(files) < MaxBulk
    /\ d # UnrenderablePdf => Len(files) < MaxDocs
    /\ files' = Append(files, d)
    /\ run' = Null
    /\ prev' = Null
    /\ UNCHANGED <<store, status, cfg, call>>

NextBulk ==
    \/ \E d \in BulkDocs : AddBulk(d)
    \/ \E t \in Clock : Extract(t)

SpecBulk == Init /\ [][NextBulk]_vars

(***************************************************************************)
(* SpecUpload: requests to POST /reports/upload                            *)
(***************************************************************************)
Unnamed == Doc("", "", 1000, PdfText(<<LnLabel, LnJanAcme50>>), BadRaster, BadImage)
Oversize ==
    Doc("salary_slip", ".pdf", MAX_FILE_SIZE + 1, PdfText(<<LnLabel, LnJanAcme50>>),
        BadRaster, BadImage)
\* a PAN card whose file name does not say so
PanScanPdf ==
    Doc("document", ".pdf", 1000, PdfText(<<LnPanNumber, LnStatementDate>>),
        BadRaster, BadImage)

UploadDocs == {EmbeddedPdf, FaintImage, TextFile, Unnamed, Oversize, PanScanPdf}

\* the response r of the handler, called at time t, reaches the client
Reply(r, t) ==
    /\ status' = r.status
    /\ store' = r.store
    /\ run' = IF r.ret = Null THEN Null ELSE [at |-> t, ret |-> r.ret]

\* the request is sent: upload_report runs on its files
Upload(t) ==
    /\ status = 0
    /\ Len(store) < MaxReports
    /\ Reply(upload_report(files, store, t), t)
    /\ UNCHANGED <<files, prev, cfg, call>>

\* the client starts another request
NewRequest ==
    /\ status # 0
    /\ files' = <<>>
    /\ run' = Null
    /\ status' = 0
    /\ UNCHANGED <<store, prev, cfg, call>>

\* a file is attached to the request
AttachFile(d) ==
    /\ status = 0
    /\ AddFile(d)

NextUpload ==
    \/ \E d \in UploadDocs : AttachFile(d)
    \/ \E t \in Clock : Upload(t)
    \/ NewRequest

SpecUpload == Init /\ [][NextUpload]_vars

(***************************************************************************)
(* SpecUnits: the functions of the service called one at a time            *)
(*                                                                         *)
(* cfg is what the data directory holds when the process runs; call is the *)
(* last call, with its arguments and what it returned.                     *)
(***************************************************************************)
FieldSets ==
    {[emi_ratio_percent |-> e, credit_score |-> s, name_match_score |-> n] :
        e \in {0, 4000, 4001}, s \in {0, 650, 699, 700}, n \in {89, 90}}
    \cup {[monthly_salary |-> 0]}

TypeLists ==
    {<<>>, <<"other">>, <<"pan_card">>, <<"salary_slip", "pan_card">>,
     <<"bank_statement", "salary_slip", "pan_card">>, <<"id_proof", "itr", "id_proof">>}

MissingLists ==
    {<<>>, <<"pan_card">>, <<"itr">>, <<"id_proof">>, <<"salary_slip", "bank_statement">>,
     <<"pan_card", "salary_slip", "bank_statement">>}

PendingLists ==
    {<<>>,
     <<[form_code |-> "KYC", form_name |-> "Credit consent",
        reason |-> "Credit score below preferred threshold"]>>,
     <<[form_code |-> "FORM_16", form_name |-> "Form 16",
        reason |-> "Income proof documents are incomplete"],
       [form_code |-> "ITR-V", form_name |-> "Name affidavit",
        reason |-> "Name mismatch risk in submitted documents"]>>}

InitUnits ==
    /\ files = <<>>
    /\ run = Null
    /\ prev = Null
    /\ store = <<>>
    /\ status = 0
    /\ cfg \in Configs
    /\ call = Null

CallMissing(doc_types) ==
    /\ call' = [op |-> "detect_missing_documents",
                doc_types |-> doc_types,
                result |-> detect_missing_documents(doc_types)]
    /\ UNCHANGED <<files, run, prev, store, status, cfg>>

CallPending(extracted_data, missing_documents) ==
    /\ call' = [op |-> "detect_pending_forms",
                extracted_data |-> extracted_data,
                missing_documents |-> missing_documents,
                result |-> detect_pending_forms(extracted_data, missing_documents)]
    /\ UNCHANGED <<files, run, prev, store, status, cfg>>

CallPredict(extracted_data, missing_documents, pending_forms) ==
    /\ call' = [op |-> "predict_credit_queries",
                extracted_data |-> extracted_data,
                missing_documents |-> missing_documents,
                pending_forms |-> pending_forms,
                result |-> predict_credit_queries(extracted_data, missing_documents,
                                                  pending_forms)]
    /\ UNCHANGED <<files, run, prev, store, status, cfg>>

\* ocr_avg_conf: a mean of confidences rounded to 2 decimals
ConfValues == {0, 1, 24, 48, 55, 62, 77, 96, 100}

\* lines 370-376 of extract_structured_data on their own
CallFinalConf(ocr_used, ocr_avg_conf, merged_text, parsed_fields) ==
    /\ call' = [op |-> "final_conf",
                ocr_used |-> ocr_used,
                ocr_avg_conf |-> ocr_avg_conf,
                merged_text |-> merged_text,
                parsed_fields |-> parsed_fields,
                result |-> FinalConf(ocr_used, ocr_avg_conf, merged_text, parsed_fields)]
    /\ UNCHANGED <<files, run, prev, store, status, cfg>>

\* file names and texts of the classifier's cases
Filenames ==
    {[stem |-> n, suffix |-> ".pdf"] :
        n \in {"bank_statement", "salary_slip", "payslip", "aadhaar", "itr_2025",
               "company_id", "pan_bank_statement", "company_statement",
               "salary_statement", "payslip_id", "aadhar_itr", "paid", "document"}}
    \cup {[stem |-> "pan_card", suffix |-> ".jpg"]}

LnPanWord == <<W("PAN Card")>>
LnCompany == <<W("Company"), W("Acme Corp")>>
LnPanLong == <<W("Permanent Account Number")>>

ClassifyTexts ==
    {<<>>, <<LnNetSalary>>, <<LnPanNumber>>, <<LnPanWord>>, <<LnNetSalary, LnCompany>>,
     <<LnPanLong>>}

CallClassify(filename, lines) ==
    /\ call' = [op |-> "classify_document_type",
                filename |-> filename,
                lines |-> lines,
                result |-> classify_document_type(filename, lines)]
    /\ UNCHANGED <<files, run, prev, store, status, cfg>>

\* texts and keyword lists of the amount search
LnTwoEmi == <<W("EMI:"), Cur, Num(5000), W("Total EMI:"), Cur, Num(7000)>>
LnIncomeInr == <<W("Income"), Mon(1), Year(2026), Cur, Num(30000)>>

FindTexts ==
    {<<>>, <<LnNetSalary>>, <<LnIncome>>, <<LnEmi, LnNetSalary>>, <<LnOutstanding>>,
     <<LnTwoEmi>>, <<LnIncomeInr>>, <<LnLabel, LnJanAcme50>>}

KeywordLists ==
    {SALARY_KEYWORDS, EMI_KEYWORDS, OUTSTANDING_KEYWORDS, <<"total emi", "emi">>,
     <<"income", "net salary", "emi">>}

CallFindAmount(lines, keywords) ==
    /\ call' = [op |-> "_find_amount_after_keywords",
                lines |-> lines,
                keywords |-> keywords,
                result |-> _find_amount_after_keywords(Stream(lines), keywords)]
    /\ UNCHANGED <<files, run, prev, store, status, cfg>>

\* the numeric dates of the date extractor's cases: 12/01/2026, 2026/02/03,
\* 12/01/26, 26/01/12, 5/1/2026, 12/13/2026 and 31/12/99
Dates ==
    {Date(12, 2, 1, 2, 2026, 4), Date(2026, 4, 2, 2, 3, 2), Date(12, 2, 1, 2, 26, 2),
     Date(26, 2, 1, 2, 12, 2), Date(5, 1, 1, 1, 2026, 4), Date(12, 2, 13, 2, 2026, 4),
     Date(31, 2, 12, 2, 99, 2)}

\* a transaction line with the date, a line without a date, a line with two
DateTexts ==
    {<<W("NEFT"), d, Cur, Num(5000)>> : d \in Dates}
    \cup {<<W("NEFT"), Cur, Num(5000)>>}
    \cup {<<d, W("NEFT"), Date(2026, 4, 2, 2, 3, 2)>> : d \in Dates}

CallDateKeys(text) ==
    /\ call' = [op |-> "_extract_month_keys_from_dates",
                text |-> text,
                result |-> _extract_month_keys_from_dates(text)]
    /\ UNCHANGED <<files, run, prev, store, status, cfg>>

\* datetime.utcnow() in every month of a year
Months == {[y |-> 2027, m |-> m] : m \in 1..12}

\* salary in thousandths: none, below half a paisa, 30,000.50 and 55,000
Salaries == {0, 4, 30000500, 55000000}

\* salary_rows: none, or a row of the table parser
RowLists ==
    {<<>>, <<[month |-> Key(2026, 1), employer |-> "Acme Corp", amount |-> 5000000,
              confidence |-> 92]>>}

\* lines 378-388 of extract_structured_data on their own
CallBreakdown(salary_rows, salary, final_conf, now) ==
    /\ call' = [op |-> "salary_breakdown",
                salary_rows |-> salary_rows,
                salary |-> salary,
                final_conf |-> final_conf,
                now |-> now,
                result |-> SetBreakdown([salary_rows |-> salary_rows,
                                         chosen |-> [salary |-> salary,
                                                     source |-> "keyword"],
                                         final_conf |-> final_conf,
                                         now |-> now]).salary_breakdown]
    /\ UNCHANGED <<files, run, prev, store, status, cfg>>

NextUnits ==
    \/ \E d \in TypeLists : CallMissing(d)
    \/ \E x \in FieldSets, m \in MissingLists : CallPending(x, m)
    \/ \E x \in FieldSets, m \in MissingLists, p \in PendingLists : CallPredict(x, m, p)
    \/ \E u \in BOOLEAN, a \in ConfValues, t \in {<<>>, <<LnNetSalary>>}, n \in 0..4 :
          CallFinalConf(u, a, t, n)
    \/ \E f \in Filenames, t \in ClassifyTexts : CallClassify(f, t)
    \/ \E t \in FindTexts, k \in KeywordLists : CallFindAmount(t, k)
    \/ \E t \in DateTexts : CallDateKeys(t)
    \/ \E r \in RowLists, x \in Salaries, f \in {71, 96}, n \in Months :
          CallBreakdown(r, x, f, n)

SpecUnits == InitUnits /\ [][NextUnits]_vars

(***************************************************************************)
(* Claims checked under Spec                                               *)
(***************************************************************************)
Ran == run # Null /\ ~run.ret.raised

Acquired(i) == run.ret.acquired[i]

\* C6: a document read without OCR has ocr_confidence 1.0 when its text is
\* non-empty and 0.0 when it is empty.
C6_ConfidenceWithoutOcr ==
    Ran => \A i \in 1..Len(files) :
              ~Acquired(i).info.ocr_used =>
                  Acquired(i).info.ocr_confidence
                      = (IF NonBlank(Acquired(i).text) THEN 100 ELSE 0)

\* a batch in which one document was read from its embedded text and another
\* has a suffix that is neither PDF nor image
C6_Witness ==
    /\ Ran
    /\ \E i \in 1..Len(files) :
          ~Acquired(i).info.ocr_used /\ Acquired(i).info.ocr_confidence = 100
    /\ \E i \in 1..Len(files) :
          ~Acquired(i).info.ocr_used /\ Acquired(i).info.ocr_confidence = 0

\* C8: a document read through OCR with a confidence below 0.55 makes
\* processing.low_quality true for the run.
C8_LowConfidenceDocumentFlagged ==
    Ran => ((\E i \in 1..Len(files) :
                /\ Acquired(i).info.ocr_used
                /\ Acquired(i).info.ocr_confidence < OCR_MIN_CONFIDENCE)
            => run.ret.processing.low_quality)

\* C9: two invocations on the same documents return the same result, whatever
\* the clock of each.
C9_SameInputSameResult ==
    (run # Null /\ prev # Null) => run.ret = prev.ret

\* C10 as stated: a failure of the OCR engine, of rasterization or of PDF
\* parsing yields empty text and confidence 0.0 for the document.
C10_AnyFailureYieldsEmpty ==
    Ran => \A i \in 1..Len(files) :
              Acquired(i).failures # {} =>
                  /\ ~NonBlank(Acquired(i).text)
                  /\ Acquired(i).info.ocr_confidence = 0

IsImageDoc(d) == Lower(d.filename.suffix) \in {".png", ".jpg", ".jpeg", ".tif", ".tiff"}

ReadPages(d) == {p \in 1..Len(d.content.raster.pages) : d.content.raster.pages[p].ok}

\* C10 as amended: no exception leaves the pipeline.  A failure of
\* rasterization, or of the OCR engine on an image document or on every page
\* of a PDF, yields empty text and confidence 0.0 for the document; after a
\* failure of the embedded-text parser the document is read through OCR; a
\* page the OCR engine fails on adds no text and counts 0.0 in the mean.
C10_FailureDegrades ==
    /\ run # Null => ~run.ret.raised
    /\ Ran => \A i \in 1..Len(files) :
          LET a == Acquired(i)
              d == files[i]
              n == Len(d.content.raster.pages)
          IN  /\ ("rasterize" \in a.failures
                    \/ ("ocr" \in a.failures /\ IsImageDoc(d))
                    \/ ("ocr" \in a.failures /\ ReadPages(d) = {}))
                  => (~NonBlank(a.text) /\ a.info.ocr_confidence = 0)
              /\ "pdf_parse" \in a.failures => a.info.ocr_used
              /\ ("ocr" \in a.failures /\ ~IsImageDoc(d))
                  => /\ Len(a.text) <= Cardinality(ReadPages(d))
                     /\ a.info.ocr_confidence * n <= 100 * Cardinality(ReadPages(d)) + n \div 2

\* a batch with a PDF that could not be rendered, a PDF whose embedded text
\* could not be parsed but whose pages were read, and one read page among
\* failed ones
C10_Witness ==
    /\ Ran
    /\ \E i \in 1..Len(files) : "rasterize" \in Acquired(i).failures
    /\ \E i \in 1..Len(files) :
          "pdf_parse" \in Acquired(i).failures /\ NonBlank(Acquired(i).text)

\* a PDF with a page the OCR engine read and a page it failed on
C10_PartialWitness ==
    /\ Ran
    /\ \E i \in 1..Len(files) :
          /\ "ocr" \in Acquired(i).failures
          /\ NonBlank(Acquired(i).text)
          /\ Acquired(i).info.ocr_confidence > 0

\* C17: emi_ratio_percent equals monthly_obligations / monthly_salary * 100
\* rounded to 2 decimals when monthly_salary > 0 and 0.0 when monthly_salary
\* is 0; without an EMI keyword monthly_obligations and the ratio are 0.0.
C17_RatioOfReturnedFields ==
    Ran =>
        /\ run.ret.extracted.emi_ratio_percent
              = (IF run.ret.extracted.monthly_salary > 0
                 THEN RoundPercent(run.ret.extracted.monthly_obligations,
                                   run.ret.extracted.monthly_salary)
                 ELSE 0)
        /\ _find_amount_after_keywords(
              Stream(MergeTexts([i \in 1..Len(files) |-> Acquired(i).text])),
              EMI_KEYWORDS) < 0
              => /\ run.ret.extracted.monthly_obligations = 0
                 /\ run.ret.extracted.emi_ratio_percent = 0

(***************************************************************************)
(* Claims checked under SpecBulk                                           *)
(***************************************************************************)
\* C1: bank_statement_months is in 1..12 for every batch of documents.
C1_StatementMonthsInRange ==
    Ran => run.ret.extracted.bank_statement_months \in 1..12

\* the merged text and the bank statement count of the run
RunText == MergeTexts([i \in 1..Len(files) |-> Acquired(i).text])

BankDocCount ==
    Cardinality({i \in 1..Len(files) :
                    run.ret.extracted.document_types_detected[i] = "bank_statement"})

\* month keys of the lines that hold a date or month name and an amount: a
\* number that stands by itself, with or without a currency prefix
AmountLineMonths ==
    UNION {IF \E j \in 1..Len(RunText[i]) : RunText[i][j].t \in {"num", "dec"}
           THEN IF _extract_month_keys_from_dates(RunText[i]) # {}
                THEN _extract_month_keys_from_dates(RunText[i])
                ELSE _extract_month_keys_from_named_months(RunText[i])
           ELSE {} : i \in 1..Len(RunText)}

\* C18: month keys from transaction lines (lines that also hold an amount)
\* decide first, clamped to 1..12; else a summary section with at least 3
\* distinct months, clamped; else the number of bank statement documents, at
\* least 1.
C18_SourcesInOrderOfTrust ==
    Ran =>
        run.ret.extracted.bank_statement_months
            = (IF AmountLineMonths # {}
               THEN Max(1, Min(12, Cardinality(AmountLineMonths)))
               ELSE IF Cardinality(_summary_statement_months(RunText)) >= 3
               THEN Max(1, Min(12, Cardinality(_summary_statement_months(RunText))))
               ELSE Max(1, BankDocCount))

(***************************************************************************)
(* Claims checked under SpecText                                           *)
(***************************************************************************)
\* the corpus of the run: the texts acquired, merged
Corpus == MergeTexts([i \in 1..Len(files) |-> Acquired(i).text])

\* C2: credit_score is 0 or in 300..900.
C2_CreditScoreRange ==
    Ran => \/ run.ret.extracted.credit_score = 0
           \/ run.ret.extracted.credit_score \in 300..900

MeanAmount(rows) == RoundDiv(SumSeq([i \in 1..Len(rows) |-> rows[i].amount]), Len(rows))

\* C3: salary_extraction_source is "structured_table" exactly when the table
\* parser yields a row, and monthly_salary is then the mean of the row amounts;
\* otherwise the source is "keyword" and monthly_salary is the keyword amount,
\* 0.0 without a keyword match.
C3_TableOverridesKeyword ==
    Ran => LET rows == _extract_salary_rows_from_labeled_tables(Corpus, run.at)
               kw == _find_amount_after_keywords(Stream(Corpus), SALARY_KEYWORDS)
               x == run.ret.extracted
           IN  IF rows # <<>>
               THEN /\ x.salary_extraction_source = "structured_table"
                    /\ x.monthly_salary = MeanAmount(rows)
               ELSE /\ x.salary_extraction_source = "keyword"
                    /\ x.monthly_salary = (IF kw < 0 THEN 0 ELSE RoundDiv(kw, 10))
                    /\ Text = <<LnNetSalary>> =>
                          /\ x.monthly_salary = 5500000
                          /\ x.monthly_obligations = 0
                          /\ x.emi_ratio_percent = 0

\* the table yields a row while a salary keyword matches another amount
C3_Witness ==
    /\ Ran
    /\ run.ret.extracted.salary_extraction_source = "structured_table"
    /\ _find_amount_after_keywords(Stream(Corpus), SALARY_KEYWORDS) >= 0
    /\ RoundDiv(_find_amount_after_keywords(Stream(Corpus), SALARY_KEYWORDS), 10)
          # run.ret.extracted.monthly_salary

\* the index of the last row of lineRows with the key of r
LastWithKey(lineRows, r) ==
    CHOOSE k \in 1..Len(lineRows) :
        /\ SameKey(lineRows[k], r)
        /\ \A j \in (k + 1)..Len(lineRows) : ~SameKey(lineRows[j], r)

\* C4: the parser returns at most one row per (month, employer), and that row
\* carries the amount and confidence of the last line parsed for the pair.
C4_DedupKeepsLast ==
    Ran => LET lineRows == ParsedRows(Corpus, run.at)
               out == _extract_salary_rows_from_labeled_tables(Corpus, run.at)
               shown == run.ret.salary_breakdown
           IN  HasSalaryLabel(Corpus) =>
               /\ \A i, j \in 1..Len(out) : SameKey(out[i], out[j]) => i = j
               /\ \A k \in 1..Len(lineRows) : \E i \in 1..Len(out) : SameKey(out[i], lineRows[k])
               /\ \A i \in 1..Len(out) :
                     /\ \E k \in 1..Len(lineRows) : SameKey(lineRows[k], out[i])
                     /\ out[i] = lineRows[LastWithKey(lineRows, out[i])]
               /\ out # <<>> =>
                     /\ Len(shown) = Len(out)
                     /\ \A i \in 1..Len(shown) :
                           /\ \E k \in 1..Len(lineRows) : SameKey(lineRows[k], shown[i])
                           /\ shown[i].amount
                                 = lineRows[LastWithKey(lineRows, shown[i])].amount

\* two lines were parsed for one (month, employer) with different amounts
C4_Witness ==
    /\ Ran
    /\ LET lineRows == ParsedRows(Corpus, run.at)
       IN  /\ HasSalaryLabel(Corpus)
           /\ \E j, k \in 1..Len(lineRows) :
                 j < k /\ SameKey(lineRows[j], lineRows[k])
                 /\ lineRows[j].amount # lineRows[k].amount

RECURSIVE Reverse(_)
Reverse(s) == IF s = <<>> THEN <<>> ELSE Reverse(Tail(s)) \o <<Head(s)>>

DistinctMonths(rows) ==
    \A i, j \in 1..Len(rows) : rows[i].month = rows[j].month => i = j

\* C5: with a non-empty salary breakdown, latest_monthly_salary is the amount
\* of a row with the greatest month key and average_monthly_salary is the mean
\* of the row amounts; when the lines of a table carry distinct months, both
\* are the same for the text with its lines in the opposite order.
C5_LatestAndAverage ==
    Ran => LET rows == run.ret.salary_breakdown
               x == run.ret.extracted
               back == extract_structured_data(<<TextDoc(Reverse(Text))>>, run.at)
           IN  rows # <<>> =>
               /\ \E i \in 1..Len(rows) :
                     /\ \A j \in 1..Len(rows) : ~KeyLess(rows[i].month, rows[j].month)
                     /\ x.latest_monthly_salary = rows[i].amount
               /\ x.average_monthly_salary = MeanAmount(rows)
               /\ Text \in {<<LnLabel, LnJanAcme50, LnFebAcme52>>,
                            <<LnLabel, LnFebAcme52, LnJanAcme50>>,
                            <<LnFebAcme52, LnJanAcme50, LnLabel>>} =>
                     /\ Len(rows) = 2
                     /\ x.average_monthly_salary = 5100000
                     /\ x.latest_monthly_salary = 5200000
               /\ (x.salary_extraction_source = "structured_table"
                     /\ DistinctMonths(ParsedRows(Corpus, run.at)))
                  => /\ back.extracted.latest_monthly_salary = x.latest_monthly_salary
                     /\ back.extracted.average_monthly_salary = x.average_monthly_salary

\* a table whose rows of different months stand in the text latest first
C5_Witness ==
    /\ Ran
    /\ run.ret.extracted.salary_extraction_source = "structured_table"
    /\ LET lineRows == ParsedRows(Corpus, run.at)
       IN  /\ Len(lineRows) >= 2
           /\ DistinctMonths(lineRows)
           /\ KeyLess(lineRows[Len(lineRows)].month, lineRows[1].month)
           /\ run.ret.extracted.latest_monthly_salary = lineRows[1].amount

(***************************************************************************)
(* Claims checked under SpecUpload                                         *)
(***************************************************************************)
Rejected(fs, ret) ==
    \/ fs = <<>>
    \/ \E i \in 1..Len(fs) :
          \/ fs[i].filename.stem = "" /\ fs[i].filename.suffix = ""
          \/ Lower(fs[i].filename.suffix) \notin ALLOWED_EXTENSIONS
          \/ fs[i].size > MAX_FILE_SIZE
    \/ (ret # Null /\ ret.ret.processing.low_quality)

\* C7: an upload rejected for an empty file list, a file without a name, a
\* file type not allowed, a file over 10 MB or a low-quality scan leaves the
\* report store as it was, and a report is stored only by an upload that
\* passed all of these checks.
C7_RejectedUploadStoresNothing ==
    [][(status = 0 /\ status' # 0) =>
          /\ Rejected(files, run') => (store' = store /\ status' \in {400, 422})
          /\ store' # store =>
                /\ ~Rejected(files, run')
                /\ status' = 200
                /\ Len(store') = Len(store) + 1
                /\ SubSeq(store', 1, Len(store)) = store]_vars

\* a low-quality upload was rejected while the store holds a report
C7_Witness ==
    /\ status = 422
    /\ run # Null /\ run.ret.processing.low_quality
    /\ Len(store) >= 1

\* C20: the document types the handler uses for missing-document detection
\* are the types the pipeline recorded in document_types_detected for the
\* same batch, so a type reported as detected is never reported as missing.
C20_HandlerTypesAreDetectedTypes ==
    \A r \in 1..Len(store) :
        /\ store[r].doc_types = store[r].extracted_data.document_types_detected
        /\ \A i \in 1..Len(store[r].missing_documents) :
              \A j \in 1..Len(store[r].extracted_data.document_types_detected) :
                 store[r].missing_documents[i]
                    # store[r].extracted_data.document_types_detected[j]

(***************************************************************************)
(* Claims checked under SpecUnits                                          *)
(***************************************************************************)
Predicted == call # Null /\ call.op = "predict_credit_queries"

\* rows and tokens of the call of predict_credit_queries
CatalogRows == Get(cfg.historical_queries, "queries", <<>>)

CallTokens ==
    QueryTokens(call.extracted_data, call.missing_documents, call.pending_forms)

Overlapping == {i \in 1..Len(CatalogRows) : Overlap(CallTokens, CatalogRows[i]) > 0}

\* C11: with base_confidence values in [0, 1], predict_credit_queries returns
\* at most 3 items and every confidence lies in [0, 0.99].
C11_AtMostThreeBoundedConfidence ==
    Predicted =>
        /\ Len(call.result) <= 3
        /\ \A i \in 1..Len(call.result) : call.result[i].confidence \in 0..99

\* more than three rows overlap, and the best score was capped
C11_Witness ==
    /\ Predicted
    /\ Cardinality(Overlapping) > 3
    /\ Len(call.result) = 3
    /\ call.result[1].confidence = 99
    /\ \E i \in Overlapping :
          Get(CatalogRows[i], "base_confidence", 50) + 8 * Overlap(CallTokens, CatalogRows[i]) > 99

\* C12: with a non-empty catalog predict_credit_queries returns at least one
\* item; with no overlapping entry it returns exactly the first entry, at
\* confidence 0.62 and with that entry's tags as rationale; otherwise it
\* returns only entries that overlap.
C12_FallbackOrOverlapping ==
    (Predicted /\ CatalogRows # <<>>) =>
        /\ Len(call.result) >= 1
        /\ Overlapping = {} =>
              call.result = <<[query |-> CatalogRows[1].query,
                               confidence |-> 62,
                               rationale |-> Get(CatalogRows[1], "tags", <<>>)]>>
        /\ Overlapping # {} =>
              \A i \in 1..Len(call.result) :
                 \E j \in Overlapping :
                    /\ call.result[i].query = CatalogRows[j].query
                    /\ call.result[i].rationale = Get(CatalogRows[j], "tags", <<>>)

\* the fallback: tokens exist, none is a tag of a row, and the first row's own
\* base_confidence is not what is returned
C12_Witness ==
    /\ Predicted
    /\ CatalogRows # <<>>
    /\ CallTokens # {}
    /\ Overlapping = {}
    /\ Get(CatalogRows[1], "base_confidence", 50) # 62
    /\ Len(call.result) = 1
    /\ call.result[1].confidence = 62

\* C13: with ocr_used, ocr_avg_conf and the presence of text fixed, final_conf
\* does not decrease when parsed_fields grows, over 0..4.
C13_FinalConfMonotone ==
    (call # Null /\ call.op = "final_conf") =>
        \A n \in call.parsed_fields..4 :
            FinalConf(call.ocr_used, call.ocr_avg_conf, call.merged_text, n)
                >= call.result

\* all four fields parsed from a scanned text: more confidence than with none
C13_Witness ==
    /\ call # Null
    /\ call.op = "final_conf"
    /\ call.ocr_used
    /\ call.parsed_fields = 4
    /\ call.result = RoundDiv(call.ocr_avg_conf + 90, 2)
    /\ call.result > FinalConf(TRUE, call.ocr_avg_conf, call.merged_text, 0)

Classified == call # Null /\ call.op = "classify_document_type"

\* the rules in their order: label, search strings for the file name
RuleOrder ==
    <<[label |-> "pan_card", names |-> {"pan", "permanent account number"}],
      [label |-> "bank_statement", names |-> {"bank", "statement"}],
      [label |-> "salary_slip", names |-> {"salary", "payslip"}],
      [label |-> "id_proof", names |-> {"aadhaar", "aadhar", "id"}],
      [label |-> "itr", names |-> {"itr"}]>>

\* rule r matches: by the file name, and for the PAN rule also by the text
RuleMatches(r, filename, lines) ==
    \/ \E k \in RuleOrder[r].names : <<filename.stem, k>> \in FilenameHits
    \/ /\ r = 1
       /\ \E i \in 1..Len(Flatten(lines)) :
             \/ Flatten(lines)[i].t = "pan"
             \/ \E k \in RuleOrder[1].names : ContainsKeyword(Flatten(lines)[i], k)

\* C14: classify_document_type returns the label of the first rule that
\* matches in the order PAN, bank/statement, salary/payslip, aadhaar/ID, ITR,
\* and "other" when none matches; pan_card.jpg with no text is "pan_card".
C14_FirstMatchingRuleWins ==
    Classified =>
        /\ \A r \in 1..Len(RuleOrder) :
              (/\ RuleMatches(r, call.filename, call.lines)
               /\ \A q \in 1..(r - 1) : ~RuleMatches(q, call.filename, call.lines))
              => call.result = RuleOrder[r].label
        /\ (\A r \in 1..Len(RuleOrder) : ~RuleMatches(r, call.filename, call.lines))
              => call.result = "other"
        /\ (call.filename = [stem |-> "pan_card", suffix |-> ".jpg"] /\ call.lines = <<>>)
              => call.result = "pan_card"

\* a PAN number in the text of a file whose name matches the bank rule
C14_Witness ==
    /\ Classified
    /\ call.filename.stem = "bank_statement"
    /\ RuleMatches(2, call.filename, call.lines)
    /\ \E i \in 1..Len(Flatten(call.lines)) : Flatten(call.lines)[i].t = "pan"
    /\ call.result = "pan_card"

\* the elements of seq at the positions in P, in their order, are res
Selects(res, seq, P) ==
    /\ Len(res) = Cardinality(P)
    /\ \A i \in P : res[Cardinality({j \in P : j <= i})] = seq[i]

Required == Get(cfg.checklist, "required_documents", <<>>)

ConfiguredForms == Get(cfg.pending_forms, "forms", <<>>)

Absent(doc_types) ==
    {i \in 1..Len(Required) : \A j \in 1..Len(doc_types) : doc_types[j] # Required[i]}

\* C15: detect_missing_documents returns the required document types absent
\* from the classified types, in the configured order; when all are present
\* it returns the empty list and detect_pending_forms then emits no form for
\* the rule if_missing_income_proof.
C15_MissingInConfiguredOrder ==
    (call # Null /\ call.op = "detect_missing_documents") =>
        /\ Selects(call.result, Required, Absent(call.doc_types))
        /\ Absent(call.doc_types) = {} =>
              /\ call.result = <<>>
              /\ \A x \in FieldSets :
                    \A i \in 1..Len(detect_pending_forms(x, call.result)) :
                       detect_pending_forms(x, call.result)[i].reason
                          # "Income proof documents are incomplete"

\* every required type was uploaded and an income-proof form is configured
C15_Witness ==
    /\ call # Null
    /\ call.op = "detect_missing_documents"
    /\ Len(Required) >= 2
    /\ call.result = <<>>
    /\ \E i \in 1..Len(ConfiguredForms) :
          Get(ConfiguredForms[i], "trigger_rule", "") = "if_missing_income_proof"
    /\ \E x \in FieldSets : detect_pending_forms(x, call.result) # <<>>

\* the trigger of a form holds
Triggered(form, extracted_data, missing_documents) ==
    /\ "trigger_rule" \in DOMAIN form
    /\ \/ /\ form.trigger_rule = "if_credit_score_below_700"
          /\ extracted_data.credit_score < 700
       \/ /\ form.trigger_rule = "if_missing_income_proof"
          /\ \E j \in 1..Len(missing_documents) :
                missing_documents[j] \in {"salary_slip", "itr", "bank_statement"}
       \/ /\ form.trigger_rule = "if_name_match_below_0_9"
          /\ extracted_data.name_match_score < 90

ReasonOf(rule) ==
    CASE rule = "if_credit_score_below_700" -> "Credit score below preferred threshold"
      [] rule = "if_missing_income_proof" -> "Income proof documents are incomplete"
      [] rule = "if_name_match_below_0_9" -> "Name mismatch risk in submitted documents"

PendingCall ==
    /\ call # Null
    /\ call.op = "detect_pending_forms"
    /\ {"credit_score", "name_match_score"} \subseteq DOMAIN call.extracted_data

TriggeredForms ==
    {i \in 1..Len(ConfiguredForms) :
        Triggered(ConfiguredForms[i], call.extracted_data, call.missing_documents)}

\* C16: detect_pending_forms emits, in configured order, one item for a form
\* exactly when its trigger holds, with the reason of its rule; a form with
\* another trigger_rule is never emitted.
C16_PendingExactlyWhenTriggered ==
    PendingCall =>
        Selects(call.result,
                [i \in 1..Len(ConfiguredForms) |->
                    IF i \in TriggeredForms
                    THEN [form_code |-> ConfiguredForms[i].code,
                          form_name |-> ConfiguredForms[i].name,
                          reason |-> ReasonOf(ConfiguredForms[i].trigger_rule)]
                    ELSE Null],
                TriggeredForms)

\* credit_score 650: the consent form is pending after the income form, and
\* the form with an unknown rule is not
C16_Witness ==
    /\ PendingCall
    /\ call.extracted_data.credit_score = 650
    /\ Len(call.result) >= 2
    /\ \E i \in 2..Len(call.result) :
          /\ call.result[i].form_code = "KYC"
          /\ call.result[i].reason = "Credit score below preferred threshold"
    /\ \E i \in 1..Len(ConfiguredForms) :
          /\ Get(ConfiguredForms[i], "trigger_rule", "") = "if_existing_loan"
          /\ \A j \in 1..Len(call.result) :
                call.result[j].form_code # ConfiguredForms[i].code

\* a currency prefix stands at p: the index of the first digit after it, or 0
PrefixedAmountAt(chars, p) ==
    IF p > Len(chars) \/ chars[p] # CUR0 THEN 0
    ELSE LET q == SkipClass(chars, SkipClass(chars, p + 1, {CUR1}), {SPACE})
         IN  IF q <= Len(chars) /\ IsDigit(chars[q]) THEN q ELSE 0

\* the windows of keyword k that lead to a currency-prefixed number
PrefixedHits(stream, chars, k) ==
    {<<i, d>> \in (1..Len(stream)) \X (0..120) :
        /\ ContainsKeyword(stream[i], k)
        /\ PrefixedAmountAt(chars, KeywordEnd(stream, i, k) + d) > 0}

\* the first keyword of the list with such a window: its nearest number, in
\* thousandths; -1 when there is none
RECURSIVE PrefixedAmountFrom(_, _, _)
PrefixedAmountFrom(stream, chars, keywords) ==
    IF keywords = <<>> THEN -1
    ELSE IF PrefixedHits(stream, chars, Head(keywords)) = {}
    THEN PrefixedAmountFrom(stream, chars, Tail(keywords))
    ELSE LET h == CHOOSE x \in PrefixedHits(stream, chars, Head(keywords)) :
                     \A y \in PrefixedHits(stream, chars, Head(keywords)) :
                        x[1] < y[1] \/ (x[1] = y[1] /\ x[2] <= y[2])
         IN  _to_amount(chars, PrefixedAmountAt(chars,
                                   KeywordEnd(stream, h[1], Head(keywords)) + h[2]))

\* C19: _find_amount_after_keywords returns the currency-prefixed number
\* that follows, within 120 characters, the first keyword of the list that
\* has one, whatever later keywords match; None when no keyword matches.
C19_FirstKeywordPrefixedAmount ==
    (call # Null /\ call.op = "_find_amount_after_keywords") =>
        call.result = PrefixedAmountFrom(Stream(call.lines), Chars(Stream(call.lines)),
                                         call.keywords)

\* the call was made on a text with exactly one numeric date
OneDateCall ==
    /\ call # Null
    /\ call.op = "_extract_month_keys_from_dates"
    /\ Cardinality({i \in 1..Len(call.text) : call.text[i].t = "date"}) = 1

\* C21: on a text with exactly one numeric date _extract_month_keys_from_dates
\* returns at most one month key, with a month in 01..12 and a 4-digit year,
\* so that one dated transaction line adds at most one statement month.
C21_OneDateOneMonthKey ==
    OneDateCall =>
        /\ Cardinality(call.result) <= 1
        /\ \A k \in call.result : k.m \in 1..12 /\ k.y \in 1000..9999
        /\ Cardinality(_transaction_statement_months(<<call.text>>)) <= 1

\* the calendar month before month key k
PrevMonth(k) == IF k.m = 1 THEN [y |-> k.y - 1, m |-> 12] ELSE [y |-> k.y, m |-> k.m - 1]

\* the breakdown was built with no rows of a salary table
KeywordBreakdown ==
    /\ call # Null
    /\ call.op = "salary_breakdown"
    /\ call.salary_rows = <<>>

\* C22: with a keyword salary > 0 the breakdown has exactly three rows, for
\* the three calendar months before the current month in ascending order,
\* each with the salary as amount and final_conf as confidence; with salary
\* 0 and no table rows it is empty.
C22_ThreePrecedingMonths ==
    KeywordBreakdown =>
        IF call.salary > 0
        THEN /\ Len(call.result) = 3
             /\ call.result[3].month = PrevMonth(call.now)
             /\ call.result[2].month = PrevMonth(PrevMonth(call.now))
             /\ call.result[1].month = PrevMonth(PrevMonth(PrevMonth(call.now)))
             /\ \A k \in 1..3 :
                   /\ call.result[k].amount = RoundDiv(call.salary, 10)
                   /\ call.result[k].confidence = call.final_conf
        ELSE call.result = <<>>

\* in February the rows are November and December of last year and January
C22_Witness ==
    /\ KeywordBreakdown
    /\ call.salary = 55000000
    /\ call.now.m = 2
    /\ Len(call.result) = 3
    /\ call.result[1].month = [y |-> call.now.y - 1, m |-> 11]
    /\ call.result[2].month = [y |-> call.now.y - 1, m |-> 12]
    /\ call.result[3].month = [y |-> call.now.y, m |-> 1]
    /\ call.result[3].amount = 5500000

====
